---- MODULE Spec2Model ----
(***************************************************************************)
(* Valuation and recommendation core of HybridStockAnalyzer                *)
(* (src/analyzer.py): calculate_fair_price and                             *)
(* generate_investment_analysis.                                           *)
(*                                                                         *)
(* Numbers.  Every indicator of the financial record is carried as a       *)
(* fixed-point integer with two decimals: the integer x stands for the     *)
(* Python float x / Scale (a price of 10.00 is 1000, a ROE of 0.18 is 18). *)
(* Arithmetic is exact rational arithmetic on these values; round(v, 2)    *)
(* is rounding of the exact value to the nearest hundredth, an exact tie   *)
(* going to the even neighbour as Python's round does.  Binary             *)
(* floating-point representation error is not modelled: where the exact    *)
(* value is a tie (1.23 * 12.5 = 15.375) the float computation may land on *)
(* either neighbour, so the properties below that speak of round(v, 2) ask *)
(* for a nearest hundredth and accept either neighbour of a tie.           *)
(***************************************************************************)
EXTENDS Integers, Sequences, FiniteSets

VARIABLES pc, data, fair_prices, analysis,      \* valuation and scoring
          clean_pc, text_value, clean_result,  \* clean_value
          \* _extract_table_data: arguments, position, locals and result
          html_soup, table_title_texts, table_pc, found_table,
          title_text_found, row_idx, cell_idx, dre_labels_order, table_data,
          extract_pc, soup, financial_data,    \* extract_financial_data
          ticker_pc, ticker_input, tickers,    \* _prepare_ticker_variants
          finnhub_client,                      \* the analyzer's field
          \* get_company_news: position, argument, locals and errors logged
          news_pc, news_count, news_list, sources_tried, news_errors,
          \* analyze_stock, one entry per invocation: position, argument,
          \* locals, calls made so far and returned value; whether an
          \* invocation has returned while another was suspended; the clock
          call_pc, call_ticker_input, call_tickers, call_response,
          call_content, call_trace, call_result, calls_overlapped, now

valuation_vars == <<pc, data, fair_prices, analysis>>

clean_vars == <<clean_pc, text_value, clean_result>>

table_vars == <<html_soup, table_title_texts, table_pc, found_table,
                title_text_found, row_idx, cell_idx, dre_labels_order,
                table_data>>

extract_vars == <<extract_pc, soup, financial_data>>

ticker_vars == <<ticker_pc, ticker_input, tickers>>

news_vars == <<news_pc, news_count, news_list, sources_tried, news_errors>>

call_vars == <<call_pc, call_ticker_input, call_tickers, call_response,
               call_content, call_trace, call_result, calls_overlapped, now>>

vars == <<valuation_vars, clean_vars, table_vars, extract_vars, ticker_vars,
          finnhub_client, news_vars, call_vars>>

\* the invocations of analyze_stock that may be in progress together
MaxCalls == 2

Calls == 1..MaxCalls

\* the locals of an invocation before they are assigned
NoTickers ==
    [original |-> <<>>, base |-> <<>>, yfinance |-> <<>>, fundamentus |-> <<>>,
     finnhub |-> <<>>]

NoResponse == [kind |-> "none", status |-> 0, status_text |-> "", message |-> ""]

NoContent == [kind |-> "none", doc |-> <<>>, message |-> ""]

\* A component that is not being exercised stays in its idle state.
ValuationIdle ==
    /\ pc = "idle"
    /\ data = <<>>
    /\ fair_prices = <<>>
    /\ analysis = <<>>

CleanIdle ==
    /\ clean_pc = "idle"
    /\ text_value = <<>>
    /\ clean_result = <<>>

TableIdle ==
    /\ table_pc = "idle"
    /\ html_soup = <<>>
    /\ table_title_texts = <<>>
    /\ found_table = 0
    /\ title_text_found = ""
    /\ row_idx = 0
    /\ cell_idx = 0
    /\ dre_labels_order = <<>>
    /\ table_data = <<>>

ExtractIdle ==
    /\ extract_pc = "idle"
    /\ soup = <<>>
    /\ financial_data = <<>>

TickerIdle ==
    /\ ticker_pc = "idle"
    /\ ticker_input = <<>>
    /\ tickers = <<>>

\* __init__(finnhub_client=None): no client configured
NoClient == finnhub_client = <<>>

NewsIdle ==
    /\ news_pc = "idle"
    /\ news_count = 0
    /\ news_list = <<>>
    /\ sources_tried = <<>>
    /\ news_errors = <<>>

CallsIdle ==
    /\ call_pc = [i \in Calls |-> "idle"]
    /\ call_ticker_input = [i \in Calls |-> <<>>]
    /\ call_tickers = [i \in Calls |-> NoTickers]
    /\ call_response = [i \in Calls |-> NoResponse]
    /\ call_content = [i \in Calls |-> NoContent]
    /\ call_trace = [i \in Calls |-> <<>>]
    /\ call_result = [i \in Calls |-> <<>>]
    /\ calls_overlapped = FALSE
    /\ now = 0

\* the extraction and valuation core
core_vars == <<valuation_vars, clean_vars, table_vars, extract_vars, ticker_vars>>

CoreIdle == ValuationIdle /\ CleanIdle /\ TableIdle /\ ExtractIdle /\ TickerIdle

\* the components added to the core
service_vars == <<finnhub_client, news_vars, call_vars>>

ServicesIdle == NoClient /\ NewsIdle /\ CallsIdle

outside_valuation ==
    <<clean_vars, table_vars, extract_vars, ticker_vars, service_vars>>

OutsideValuationIdle ==
    CleanIdle /\ TableIdle /\ ExtractIdle /\ TickerIdle /\ ServicesIdle

outside_clean ==
    <<valuation_vars, table_vars, extract_vars, ticker_vars, service_vars>>

OutsideCleanIdle ==
    ValuationIdle /\ TableIdle /\ ExtractIdle /\ TickerIdle /\ ServicesIdle

outside_table ==
    <<valuation_vars, clean_vars, extract_vars, ticker_vars, service_vars>>

OutsideTableIdle ==
    ValuationIdle /\ CleanIdle /\ ExtractIdle /\ TickerIdle /\ ServicesIdle

outside_extract ==
    <<valuation_vars, clean_vars, table_vars, ticker_vars, service_vars>>

OutsideExtractIdle ==
    ValuationIdle /\ CleanIdle /\ TableIdle /\ TickerIdle /\ ServicesIdle

outside_ticker ==
    <<valuation_vars, clean_vars, table_vars, extract_vars, service_vars>>

OutsideTickerIdle ==
    ValuationIdle /\ CleanIdle /\ TableIdle /\ ExtractIdle /\ ServicesIdle

\* round(..., 2): two decimals, so one unit of a value is 1/100.
Scale == 100

----------------------------------------------------------------------------
(* Arithmetic helpers *)

Max(a, b) == IF a >= b THEN a ELSE b

Min(a, b) == IF a <= b THEN a ELSE b

\* round() of the exact value q + r/d (0 <= r < d): nearest integer, an
\* exact tie to the even neighbour.
RoundQR(q, r, d) ==
    IF 2 * r > d THEN q + 1
    ELSE IF 2 * r = d THEN (IF q % 2 = 0 THEN q ELSE q + 1)
    ELSE q

\* round(n / d) for d > 0 (n may be negative: \div is floor division).
RoundDiv(n, d) == RoundQR(n \div d, n % d, d)

\* <<q, r>> with a * b = q * d + r and 0 <= r < d, for a >= 0, b >= 0,
\* d > 0, computed by doubling so that no intermediate product is formed
\* (the product a * b itself may exceed the range of machine integers).
RECURSIVE MulDivMod(_, _, _)
MulDivMod(a, b, d) ==
    IF a = 0 THEN <<0, 0>>
    ELSE LET h == MulDivMod(a \div 2, b, d)
             t == 2 * h[2] + (a % 2) * b
         IN  <<2 * h[1] + (t \div d), t % d>>

\* floor(sqrt(x)) for x >= 0, by bisection on lo <= sqrt(x) < hi.
RECURSIVE ISqrtIn(_, _, _)
ISqrtIn(x, lo, hi) ==
    IF hi - lo <= 1 THEN lo
    ELSE LET mid == (lo + hi) \div 2
         IN  IF mid * mid <= x THEN ISqrtIn(x, mid, hi)
             ELSE ISqrtIn(x, lo, mid)

ISqrt(x) == ISqrtIn(x, 0, Min(x, 46340) + 1)

\* sum of a sequence of integers
RECURSIVE SumSeq(_)
SumSeq(s) == IF s = <<>> THEN 0 ELSE Head(s) + SumSeq(Tail(s))

----------------------------------------------------------------------------
(* calculate_fair_price *)

\* required_rate_of_return = 0.12
required_rate_of_return == 12

\* Faulty variant of graham: the radicand's sign is tested, not each factor's
\* (what taking abs() of the inputs would compute for two negative inputs).
graham_abs(lpa, vpa) ==
    IF lpa * vpa > 0
    THEN (ISqrt(90 * lpa * vpa) + 1) \div 2
    ELSE 0

\* Graham: res['graham'] = 0.0, replaced by round(sqrt(22.5 * lpa * vpa), 2)
\* when lpa > 0 and vpa > 0.  In hundredths the value is
\* round(sqrt(22.5 * lpa * vpa)) = n with (2n - 1)^2 <= 90 * lpa * vpa
\* < (2n + 1)^2; 90 * lpa * vpa is even, so no exact tie exists.
graham(lpa, vpa) ==
    IF lpa > 0 /\ vpa > 0
    THEN (ISqrt(90 * lpa * vpa) + 1) \div 2
    ELSE 0

\* Faulty variant of ddm_inputs_valid: a zero ROE is let through.
ddm_inputs_valid_zero_roe(cotacao, div_yield, roe, lpa) ==
    cotacao > 0 /\ div_yield > 0 /\ roe >= 0 /\ lpa # 0

\* Faulty variant of ddm_limit: the value is not limited to 5 * cotacao.
ddm_limit_none(qr, cotacao) == qr

\* DDM.  With S = Scale, C = cotacao, Y = div_yield, R = roe, L = lpa:
\*   dpa          = C*Y / S^2
\*   payout_ratio = dpa / lpa            = C*Y / (S*L)
\*   g            = roe * (1 - payout)   = R*(S*L - C*Y) / (S^2 * L)
\*   denominator  = rr - g               = gap / (S^2 * L),
\*                  gap = rr*S*L - R*(S*L - C*Y)
\*   ddm_value    = dpa * (1 + g) / denominator
\*                = C*Y * (S^2*L + R*(S*L - C*Y)) / (S * gap)   (hundredths)
\* if cotacao > 0 and div_yield > 0 and roe > 0 and lpa != 0
ddm_inputs_valid(cotacao, div_yield, roe, lpa) ==
    cotacao > 0 /\ div_yield > 0 /\ roe > 0 /\ lpa # 0

\* min(max(ddm_value, 0), cotacao * 5) for ddm_value = qr[1] + qr[2]/d >= 0:
\* cotacao * 5 is a whole number of hundredths, so the value exceeds it
\* exactly when its integer part does.
ddm_limit(qr, cotacao) ==
    IF qr[1] >= 5 * cotacao THEN <<5 * cotacao, 0>> ELSE qr

ddm(cotacao, div_yield, roe, lpa) ==
    IF ddm_inputs_valid(cotacao, div_yield, roe, lpa)
    THEN LET dpa    == cotacao * div_yield
             payout_in_range ==        \* 0 <= payout_ratio <= 1
                 IF lpa > 0 THEN 0 <= dpa /\ dpa <= Scale * lpa
                 ELSE dpa <= 0 /\ dpa >= Scale * lpa
         IN  IF payout_in_range
             THEN LET retained == Scale * lpa - dpa
                      gap == required_rate_of_return * Scale * lpa
                                 - roe * retained
                  IN  \* required_rate_of_return > g and g >= 0 (lpa > 0 here)
                      IF gap > 0 /\ roe * retained >= 0
                      THEN \* denominator_ddm > 1e-6
                           IF gap * (1000000 \div (Scale * Scale)) > lpa
                           THEN LET qr == MulDivMod(dpa,
                                              Scale * Scale * lpa + roe * retained,
                                              Scale * gap)
                                    capped == ddm_limit(qr, cotacao)
                                IN  RoundQR(capped[1], capped[2], Scale * gap)
                           ELSE 0
                      ELSE 0
             ELSE 0
    ELSE 0

\* Faulty variant of score_pl: thresholds not strict.
score_pl_nonstrict(roe, liquidez_corrente) ==
    (IF roe >= 15 THEN 3 ELSE IF roe >= 10 THEN 2 ELSE 0)
    + (IF liquidez_corrente >= 150 THEN 2 ELSE 0)

\* P/L Ajustado: score_pl
score_pl(roe, liquidez_corrente) ==
    (IF roe > 15 THEN 3 ELSE IF roe > 10 THEN 2 ELSE 0)
    + (IF liquidez_corrente > 150 THEN 2 ELSE 0)

\* pl_justo_multiplicador = min(8 + score_pl * 1.5, 25), in halves
pl_justo_multiplicador(score) == Min(16 + score * 3, 50)

pe_adjusted(lpa, roe, liquidez_corrente) ==
    RoundDiv(lpa * pl_justo_multiplicador(score_pl(roe, liquidez_corrente)), 2)

\* Faulty variant of multiplicador_pvp: thresholds not strict.
multiplicador_pvp_nonstrict(roe) ==
    IF roe >= 20 THEN 25
    ELSE IF roe >= 15 THEN 20
    ELSE IF roe >= 10 THEN 15
    ELSE 10

\* Faulty variant of multiplicador_pvp: 2.0 only above 0.20, with no 2.5 tier.
multiplicador_pvp_shifted(roe) ==
    IF roe > 20 THEN 20
    ELSE IF roe > 15 THEN 15
    ELSE 10

\* multiplicador_pvp, in tenths: 2.5 / 2.0 / 1.5 / 1.0
multiplicador_pvp(roe) ==
    IF roe > 20 THEN 25
    ELSE IF roe > 15 THEN 20
    ELSE IF roe > 10 THEN 15
    ELSE 10

pvp_adjusted(vpa, roe) == RoundDiv(vpa * multiplicador_pvp(roe), 10)

\* The (key, weight) list of the weighted mean, weights in tenths.
ModelWeights ==
    << <<"graham", 3>>, <<"ddm", 2>>, <<"pe_adjusted", 3>>, <<"pvp_adjusted", 2>> >>

\* Faulty variants of included: every non-zero value, every value >= 0.
included_nonzero(val) == val # 0

included_nonneg(val) == val >= 0

\* Faulty variant of included: every value.
included_always(val) == TRUE

\* if val > 0: vals.append(val); wts.append(weight)
included(val) == val > 0

\* The loop over ModelWeights: the <<value, weight>> pairs appended, in
\* order, for the entries from position i on.
RECURSIVE collect(_, _)
collect(res, i) ==
    IF i > Len(ModelWeights) THEN <<>>
    ELSE LET key == ModelWeights[i][1]
             weight == ModelWeights[i][2]
             rest == collect(res, i + 1)
         IN  IF included(res[key]) THEN << <<res[key], weight>> >> \o rest
             ELSE rest

\* res['average']: 0.0, replaced when vals is not empty and total_wt > 0 by
\* round(sum(v_i * (w_i / total_wt)), 2).
average(res) ==
    LET pairs == collect(res, 1)
        vals == [i \in 1..Len(pairs) |-> pairs[i][1]]
        wts == [i \in 1..Len(pairs) |-> pairs[i][2]]
        total_wt == SumSeq(wts)
    IN  IF pairs # <<>> /\ total_wt > 0
        THEN RoundDiv(SumSeq([i \in 1..Len(pairs) |-> vals[i] * wts[i]]), total_wt)
        ELSE 0

calculate_fair_price(d) ==
    LET res == [graham |-> graham(d.lucro_por_acao, d.valor_patrimonial_acao),
                ddm |-> ddm(d.cotacao_atual, d.dividend_yield, d.roe,
                            d.lucro_por_acao),
                pe_adjusted |-> pe_adjusted(d.lucro_por_acao, d.roe,
                                            d.liquidez_corrente),
                pvp_adjusted |-> pvp_adjusted(d.valor_patrimonial_acao, d.roe)]
    IN  [graham |-> res.graham, ddm |-> res.ddm,
         pe_adjusted |-> res.pe_adjusted, pvp_adjusted |-> res.pvp_adjusted,
         average |-> average(res)]

----------------------------------------------------------------------------
(* generate_investment_analysis.  String values are the source's, written *)
(* without their accents.                                               *)

\* One step of the scoring: what it assigns to analysis['recommendation']
\* ("" when it leaves it alone), what it adds to score_analise, and the notes
\* it appends to analysis['strengths'] and analysis['weaknesses'].  A note
\* is its text without the formatted number.
Step(rec, inc, strengths, weaknesses) ==
    [recommendation |-> rec, inc |-> inc,
     strengths |-> strengths, weaknesses |-> weaknesses]

NoStep == Step("", 0, <<>>, <<>>)

Strength(inc, note) == Step("", inc, <<note>>, <<>>)

Weakness(inc, note) == Step("", inc, <<>>, <<note>>)

\* Faulty variant of margin_tier: thresholds not strict.
margin_tier_nonstrict(preco_justo_medio, cotacao_atual) ==
    LET m == Scale * (preco_justo_medio - cotacao_atual)
        pa == cotacao_atual
    IN  IF m >= 30 * pa THEN <<"COMPRAR FORTE", 3>>
        ELSE IF m >= 15 * pa THEN <<"COMPRAR", 2>>
        ELSE IF m >= 5 * pa THEN <<"COMPRAR FRACO", 1>>
        ELSE IF m <= -15 * pa THEN <<"VENDER FRACO", -1>>
        ELSE IF m <= -30 * pa THEN <<"VENDER", -2>>
        ELSE IF m <= -50 * pa THEN <<"VENDER FORTE", -3>>
        ELSE <<"", 0>>

\* The if/elif chain on discount_margin = (pj - pa) / pa, for pa > 0, in the
\* order the code tests it: discount_margin > 0.30 is
\* Scale * (pj - pa) > 30 * pa, and so on.
margin_tier(preco_justo_medio, cotacao_atual) ==
    LET m == Scale * (preco_justo_medio - cotacao_atual)
        pa == cotacao_atual
    IN  IF m > 30 * pa THEN <<"COMPRAR FORTE", 3>>
        ELSE IF m > 15 * pa THEN <<"COMPRAR", 2>>
        ELSE IF m > 5 * pa THEN <<"COMPRAR FRACO", 1>>
        ELSE IF m < -15 * pa THEN <<"VENDER FRACO", -1>>
        ELSE IF m < -30 * pa THEN <<"VENDER", -2>>
        ELSE IF m < -50 * pa THEN <<"VENDER FORTE", -3>>
        ELSE <<"", 0>>

\* Faulty variant of valuation_step: an inconclusive average costs a point.
valuation_step_penalty(preco_justo_medio, cotacao_atual) ==
    IF preco_justo_medio > 0 /\ cotacao_atual > 0
    THEN LET t == margin_tier(preco_justo_medio, cotacao_atual)
         IN  Step(t[1], t[2], <<"Potencial de valorizacao">>, <<>>)
    ELSE IF cotacao_atual <= 0 /\ preco_justo_medio > 0
    THEN Step("ANALISAR (Cotacao Anormal)", 0, <<>>, <<>>)
    ELSE IF preco_justo_medio <= 0 /\ cotacao_atual > 0
    THEN Step("CAUTELA", -1, <<>>,
              <<"Media dos precos justos nao e conclusiva">>)
    ELSE NoStep

valuation_step(preco_justo_medio, cotacao_atual) ==
    IF preco_justo_medio > 0 /\ cotacao_atual > 0
    THEN LET t == margin_tier(preco_justo_medio, cotacao_atual)
         IN  Step(t[1], t[2], <<"Potencial de valorizacao">>, <<>>)
    ELSE IF cotacao_atual <= 0 /\ preco_justo_medio > 0
    THEN Step("ANALISAR (Cotacao Anormal)", 0, <<>>, <<>>)
    ELSE IF preco_justo_medio <= 0 /\ cotacao_atual > 0
    THEN Step("CAUTELA", 0, <<>>,
              <<"Media dos precos justos nao e conclusiva">>)
    ELSE NoStep

roe_step(roe) ==
    IF roe > 20 THEN Strength(2, "ROE Excelente")
    ELSE IF roe > 10 THEN Strength(1, "ROE Bom")
    ELSE IF roe < 0 /\ roe # 0 THEN Weakness(-2, "ROE Negativo")
    ELSE NoStep

\* Faulty variant of roic_step: the thresholds of roe.
roic_step_roe_thresholds(roic) ==
    IF roic > 20 THEN Strength(2, "ROIC Excelente")
    ELSE IF roic > 10 THEN Strength(1, "ROIC Bom")
    ELSE IF roic < 0 /\ roic # 0 THEN Weakness(-2, "ROIC Negativo")
    ELSE NoStep

roic_step(roic) ==
    IF roic > 15 THEN Strength(2, "ROIC Excelente")
    ELSE IF roic > 10 THEN Strength(1, "ROIC Bom")
    ELSE IF roic < 0 /\ roic # 0 THEN Weakness(-2, "ROIC Negativo")
    ELSE NoStep

pl_step(pl) ==
    IF 0 < pl /\ pl < 10 * Scale THEN Strength(1, "P/L Baixo")
    ELSE IF pl < 0 THEN Weakness(-2, "P/L Negativo")
    ELSE NoStep

div_br_patrim_step(div_br_patrim) ==
    IF 0 <= div_br_patrim /\ div_br_patrim < 50
    THEN Strength(1, "Endividamento Baixo")
    ELSE IF div_br_patrim > 100 THEN Weakness(-1, "Endividamento Alto")
    ELSE IF div_br_patrim < 0 THEN Weakness(-2, "Div. Bruta/PL Negativo")
    ELSE NoStep

\* Faulty variant of liq_corr_step: a ratio of zero is not low.
liq_corr_step_positive(liq_corr) ==
    IF liq_corr > 200 THEN Strength(1, "Liquidez Corrente Otima")
    ELSE IF liq_corr < 100 /\ liq_corr > 0
    THEN Weakness(-1, "Liquidez Corrente Baixa")
    ELSE NoStep

liq_corr_step(liq_corr) ==
    IF liq_corr > 200 THEN Strength(1, "Liquidez Corrente Otima")
    ELSE IF liq_corr < 100 /\ liq_corr >= 0
    THEN Weakness(-1, "Liquidez Corrente Baixa")
    ELSE NoStep

cres_receita_step(cres_receita) ==
    IF cres_receita > 10 THEN Strength(1, "Crescimento da Receita Bom")
    ELSE IF cres_receita < 0 /\ cres_receita # 0
    THEN Weakness(-1, "Crescimento da Receita Negativo")
    ELSE NoStep

\* The steps in the order the code runs them.
analysis_steps(d, fp) ==
    << valuation_step(fp.average, d.cotacao_atual),
       roe_step(d.roe),
       roic_step(d.roic),
       pl_step(d.preco_lucro),
       div_br_patrim_step(d.divida_bruta_patrimonio),
       liq_corr_step(d.liquidez_corrente),
       cres_receita_step(d.cres_receita_5a) >>

\* score_analise after the steps
RECURSIVE score_analise(_)
score_analise(steps) ==
    IF steps = <<>> THEN 0 ELSE Head(steps).inc + score_analise(Tail(steps))

RECURSIVE notes(_, _)
notes(steps, field) ==
    IF steps = <<>> THEN <<>>
    ELSE Head(steps)[field] \o notes(Tail(steps), field)

\* Faulty variant of clamp_score: no clamp.
clamp_score_none(s) == s

\* analysis['score'] = max(min(score_analise, 10), -10)
clamp_score(s) == Max(Min(s, 10), -10)

\* Faulty variant of InitialAnalysis: the dictionary of the analysis returned
\* last is used again.
KeptAnalysis ==
    IF \E i \in Calls : call_pc[i] = "returned" /\ "analysis" \in DOMAIN call_result[i]
    THEN call_result[CHOOSE i \in Calls :
                        /\ call_pc[i] = "returned"
                        /\ "analysis" \in DOMAIN call_result[i]].analysis
    ELSE [recommendation |-> "NEUTRO", risk_level |-> "MEDIO",
          strengths |-> <<>>, weaknesses |-> <<>>,
          summary |-> <<>>, score |-> 0]

\* lines 317-320: analysis as generate_investment_analysis creates it,
\* before any step
InitialAnalysis ==
    [recommendation |-> "NEUTRO", risk_level |-> "MEDIO",
     strengths |-> <<>>, weaknesses |-> <<>>,
     summary |-> <<>>, score |-> 0]

generate_investment_analysis(d, fp) ==
    LET steps == analysis_steps(d, fp)
        rec == IF steps[1].recommendation = "" THEN InitialAnalysis.recommendation
               ELSE steps[1].recommendation
        score == clamp_score(score_analise(steps))
    IN  [recommendation |-> rec,
         risk_level |-> InitialAnalysis.risk_level,
         strengths |-> InitialAnalysis.strengths \o notes(steps, "strengths"),
         weaknesses |-> InitialAnalysis.weaknesses \o notes(steps, "weaknesses"),
         summary |-> <<rec, score>>,
         score |-> score]

----------------------------------------------------------------------------
(* State machine.  analyze_stock hands the extracted record to               *)
(* calculate_fair_price and the record and the fair prices to                *)
(* generate_investment_analysis; both are also public methods a caller may   *)
(* apply to any record and any fair-price set.                               *)

\* no fair prices computed yet
NoPrices ==
    [graham |-> 0, ddm |-> 0, pe_adjusted |-> 0, pvp_adjusted |-> 0,
     average |-> 0]

\* A financial record; data.get(key, 0.0) reads an absent key as 0.
Record(cot, pl, lpa, vpa, roe, roic, liq, dbp, cres, dy) ==
    [cotacao_atual |-> cot, preco_lucro |-> pl, lucro_por_acao |-> lpa,
     valor_patrimonial_acao |-> vpa, roe |-> roe, roic |-> roic,
     liquidez_corrente |-> liq, divida_bruta_patrimonio |-> dbp,
     cres_receita_5a |-> cres, dividend_yield |-> dy]

\* Bounds of the input ranges (hundredths).
MaxRoe == 22

MaxYield == 5

\* Inputs of calculate_fair_price: negative, zero and positive per-share
\* figures and prices, every ROE from -0.01 to MaxRoe/100 (all thresholds
\* 0.10, 0.15, 0.20 and the growth rates around the required return 0.12),
\* every yield from -0.01 to MaxYield/100.
LpaValues == {-150, 0, 1, 101, 150, 200}

VpaValues == {-1000, 0, 1, 1000, 1200}

CotacaoValues == {-100, 0, 259, 1000}

LiquidezValues == {150, 151, 200}

FairRecords ==
    { Record(cot, 800, lpa, vpa, roe, 0, liq, 30, 0, dy) :
        cot \in CotacaoValues, lpa \in LpaValues, vpa \in VpaValues,
        roe \in -1..MaxRoe, liq \in LiquidezValues, dy \in -1..MaxYield }

\* Inputs of generate_investment_analysis.  Averages on both sides of every
\* margin threshold for a price of 10.00 (and a negative and a zero one).
AverageValues ==
    {-100, 0, 400, 499, 500, 501, 699, 700, 701, 849, 850, 851, 1000,
     1050, 1051, 1150, 1151, 1300, 1301, 1310}

PriceValues == {-100, 0, 1000}

RoeValues == {-1, 0, 10, 11, 20, 21}

RoicValues == {-1, 0, 10, 11, 15, 16}

PlValues == {-100, 0, 1, 999, 1000}

DivBrPatrimValues == {-1, 0, 49, 50, 100, 101}

LiqCorrValues == {-1, 0, 99, 100, 200, 201}

CresReceitaValues == {-1, 0, 10, 11}

\* every indicator in its best, its worst and its neutral band
QualityProfiles ==
    { [preco_lucro |-> 999, roe |-> 21, roic |-> 16, liquidez_corrente |-> 201,
       divida_bruta_patrimonio |-> 0, cres_receita_5a |-> 11],
      [preco_lucro |-> -100, roe |-> -1, roic |-> -1, liquidez_corrente |-> 0,
       divida_bruta_patrimonio |-> -1, cres_receita_5a |-> -1],
      [preco_lucro |-> 1000, roe |-> 10, roic |-> 10, liquidez_corrente |-> 100,
       divida_bruta_patrimonio |-> 50, cres_receita_5a |-> 10] }

PricesWithAverage(avg) == [NoPrices EXCEPT !.average = avg]

\* <<record, fair prices>>: every valuation case with every quality profile,
\* and every combination of the six quality indicators with a neutral and a
\* strong-buy valuation.
AnalysisInputs ==
    { << Record(cot, q.preco_lucro, 0, 0, q.roe, q.roic, q.liquidez_corrente,
                q.divida_bruta_patrimonio, q.cres_receita_5a, 0),
         PricesWithAverage(avg) >> :
        cot \in PriceValues, avg \in AverageValues, q \in QualityProfiles }
    \cup
    { << Record(1000, pl, 0, 0, roe, roic, liq, dbp, cres, 0),
         PricesWithAverage(avg) >> :
        pl \in PlValues, roe \in RoeValues, roic \in RoicValues,
        liq \in LiqCorrValues, dbp \in DivBrPatrimValues,
        cres \in CresReceitaValues, avg \in {1000, 1310} }

\* Records of the whole pipeline; they include the all-zero record.
PipelineRecords ==
    { Record(cot, pl, lpa, vpa, roe, roic, liq, dbp, cres, dy) :
        cot \in {0, 1000}, pl \in {0, 800}, lpa \in {-150, 0, 150},
        vpa \in {0, 1200}, roe \in {-1, 0, 18, 21}, roic \in {0, 16},
        liq \in {0, 200}, dbp \in {0, 30}, cres \in {-1, 0}, dy \in {0, 5} }

\* fair_prices = self.calculate_fair_price(financial_data, ticker_input)
CalculateFairPrice ==
    /\ pc = "start"
    /\ fair_prices' = calculate_fair_price(data)
    /\ pc' = "priced"
    /\ UNCHANGED <<data, analysis, outside_valuation>>

\* analysis_summary = self.generate_investment_analysis(financial_data,
\*                                                      fair_prices, ticker_input)
GenerateInvestmentAnalysis ==
    /\ pc = "priced"
    /\ analysis' = generate_investment_analysis(data, fair_prices)
    /\ pc' = "done"
    /\ UNCHANGED <<data, fair_prices, outside_valuation>>

Init ==
    /\ pc = "start"
    /\ data \in PipelineRecords
    /\ fair_prices = NoPrices
    /\ analysis = InitialAnalysis
    /\ OutsideValuationIdle

Next == CalculateFairPrice \/ GenerateInvestmentAnalysis

Spec == Init /\ [][Next]_vars

\* calculate_fair_price applied to any record of FairRecords
InitFair ==
    /\ pc = "start"
    /\ data \in FairRecords
    /\ fair_prices = NoPrices
    /\ analysis = InitialAnalysis
    /\ OutsideValuationIdle

NextFair == CalculateFairPrice

SpecFair == InitFair /\ [][NextFair]_vars

\* generate_investment_analysis applied to any record and fair-price set of
\* AnalysisInputs
InitAnalysis ==
    /\ pc = "priced"
    /\ \E in \in AnalysisInputs : data = in[1] /\ fair_prices = in[2]
    /\ analysis = InitialAnalysis
    /\ OutsideValuationIdle

NextAnalysis == GenerateInvestmentAnalysis

SpecAnalysis == InitAnalysis /\ [][NextAnalysis]_vars

----------------------------------------------------------------------------
(* Properties *)

Abs(x) == IF x < 0 THEN -x ELSE x

\* v is x / d rounded to the nearest integer (d > 0), whichever way a tie goes
Nearest(v, x, d) == 2 * Abs(v * d - x) <= d

\* what the six quality indicators add to the score of record d
QualityIncrement(d) ==
    roe_step(d.roe).inc + roic_step(d.roic).inc + pl_step(d.preco_lucro).inc
    + div_br_patrim_step(d.divida_bruta_patrimonio).inc
    + liq_corr_step(d.liquidez_corrente).inc
    + cres_receita_step(d.cres_receita_5a).inc

\* the returned analysis carries recommendation rec and the score that the
\* valuation increment inc gives together with the quality indicators
Recommends(rec, inc) ==
    /\ analysis.recommendation = rec
    /\ analysis.score = Max(Min(inc + QualityIncrement(data), 10), -10)

\* discount_margin compared with k/100:  Scale * (pj - pa)  vs  k * pa
MarginTimesPrice == Scale * (fair_prices.average - data.cotacao_atual)

Valued ==
    pc = "done" /\ data.cotacao_atual > 0 /\ fair_prices.average > 0

(* C1: the score generate_investment_analysis returns is an integer in
   [-10, 10], for every record and every fair-price set. *)
C1_ScoreInRange == pc = "done" => analysis.score \in -10..10

\* a strong buy with all six indicators in their best band: 3 + 8 = 11,
\* returned as 10
C1_Witness ==
    /\ pc = "done"
    /\ score_analise(analysis_steps(data, fair_prices)) = 11
    /\ analysis.score = 10

(* C2: with positive price and positive average, each of the seven tiers is
   produced by its threshold, with its increment: margin < -0.50 VENDER FORTE
   (-3), -0.50 <= margin < -0.30 VENDER (-2), -0.30 <= margin < -0.15 VENDER
   FRACO (-1), -0.15 <= margin <= 0.05 NEUTRO (0), then COMPRAR FRACO (+1),
   COMPRAR (+2) and COMPRAR FORTE (+3) above 0.05, 0.15 and 0.30. *)
C2_SevenTiers ==
    Valued =>
        LET m == MarginTimesPrice
            pa == data.cotacao_atual
        IN  IF m < -50 * pa THEN Recommends("VENDER FORTE", -3)
            ELSE IF m < -30 * pa THEN Recommends("VENDER", -2)
            ELSE IF m < -15 * pa THEN Recommends("VENDER FRACO", -1)
            ELSE IF m <= 5 * pa THEN Recommends("NEUTRO", 0)
            ELSE IF m <= 15 * pa THEN Recommends("COMPRAR FRACO", 1)
            ELSE IF m <= 30 * pa THEN Recommends("COMPRAR", 2)
            ELSE Recommends("COMPRAR FORTE", 3)

(* C3, as stated: every value of the mapping calculate_fair_price returns is
   >= 0, also for negative lucro_por_acao or valor_patrimonial_acao. *)
C3_AllNonNegative ==
    pc = "priced" =>
        /\ fair_prices.graham >= 0
        /\ fair_prices.ddm >= 0
        /\ fair_prices.pe_adjusted >= 0
        /\ fair_prices.pvp_adjusted >= 0
        /\ fair_prices.average >= 0

(* C3, amended: graham, ddm and average are >= 0 for every record;
   pe_adjusted is >= 0 when lucro_por_acao >= 0 and <= 0 when it is negative,
   pvp_adjusted is >= 0 when valor_patrimonial_acao >= 0 and <= 0 when it is
   negative. *)
C3_SignOfPrices ==
    pc = "priced" =>
        /\ fair_prices.graham >= 0
        /\ fair_prices.ddm >= 0
        /\ fair_prices.average >= 0
        /\ data.lucro_por_acao >= 0 => fair_prices.pe_adjusted >= 0
        /\ data.lucro_por_acao < 0 => fair_prices.pe_adjusted <= 0
        /\ data.valor_patrimonial_acao >= 0 => fair_prices.pvp_adjusted >= 0
        /\ data.valor_patrimonial_acao < 0 => fair_prices.pvp_adjusted <= 0

\* negative earnings beside a positive book value: a negative pe_adjusted
\* in the mapping, and a positive average
C3_Witness ==
    /\ pc = "priced"
    /\ data.lucro_por_acao < 0
    /\ fair_prices.pe_adjusted < 0
    /\ fair_prices.pvp_adjusted > 0
    /\ fair_prices.average > 0

\* cotacao_atual=10.0, preco_lucro=8.0, lucro_por_acao=1.5,
\* valor_patrimonial_acao=12.0, roe=0.18, liquidez_corrente=2.0,
\* divida_bruta_patrimonio=0.3, dividend_yield=0.0, all others 0
EndToEndRecord == Record(1000, 800, 150, 1200, 18, 0, 200, 30, 0, 0)

(* C4, as stated: for the end-to-end record graham = 20.12, ddm = 0.0,
   pe_adjusted = 23.25, pvp_adjusted = 18.0, and average is the mean of the
   three positive models weighted 0.3, 0.3, 0.2 over 0.8. *)
C4_EndToEnd ==
    (pc = "priced" /\ data = EndToEndRecord) =>
        /\ fair_prices.graham = 2012
        /\ fair_prices.ddm = 0
        /\ fair_prices.pe_adjusted = 2325
        /\ fair_prices.pvp_adjusted = 1800
        /\ Nearest(fair_prices.average, 3 * 2012 + 3 * 2325 + 2 * 1800, 8)

(* C4, amended: for the end-to-end record graham = 20.12, ddm = 0.0,
   pe_adjusted = 23.25, pvp_adjusted = 24.0 (roe 0.18 > 0.15 gives the
   multiplier 2.0), and average = 22.26, the mean of the three positive
   models weighted 0.3, 0.3, 0.2 over 0.8. *)
C4_EndToEndAmended ==
    (pc = "priced" /\ data = EndToEndRecord) =>
        /\ fair_prices.graham = 2012
        /\ fair_prices.ddm = 0
        /\ fair_prices.pe_adjusted = 2325
        /\ fair_prices.pvp_adjusted = 2400
        /\ fair_prices.average = 2226
        /\ Nearest(fair_prices.average, 3 * 2012 + 3 * 2325 + 2 * 2400, 8)

C4_Witness ==
    pc = "priced" /\ data = EndToEndRecord /\ fair_prices.pvp_adjusted = 2400

\* weight of a model (tenths) if its value is > 0, else 0
WeightIfPositive(val, weight) == IF val > 0 THEN weight ELSE 0

(* C5: average is the weighted mean of exactly the models whose value is
   > 0, weights 0.3, 0.2, 0.3, 0.2 divided by the sum of the weights of the
   included models; models <= 0 count in neither the numerator nor the
   weight sum; with no model > 0, average is 0.0. *)
C5_WeightedMean ==
    pc = "priced" =>
        LET fp == fair_prices
            wg == WeightIfPositive(fp.graham, 3)
            wd == WeightIfPositive(fp.ddm, 2)
            wpe == WeightIfPositive(fp.pe_adjusted, 3)
            wpvp == WeightIfPositive(fp.pvp_adjusted, 2)
            total == wg + wd + wpe + wpvp
            weighted == fp.graham * wg + fp.ddm * wd + fp.pe_adjusted * wpe
                        + fp.pvp_adjusted * wpvp
        IN  IF total = 0 THEN fp.average = 0
            ELSE Nearest(fp.average, weighted, total)

\* a negative and a zero model left out, two different positive ones
\* averaged
C5_Witness ==
    /\ pc = "priced"
    /\ fair_prices.graham = 0
    /\ fair_prices.pvp_adjusted < 0
    /\ fair_prices.ddm > 0
    /\ fair_prices.pe_adjusted > 0
    /\ fair_prices.pe_adjusted # fair_prices.ddm
    /\ fair_prices.average > 0

(* C6: with positive price and positive average the buy boundaries are
   strict: margin 0.31 gives COMPRAR FORTE (+3), margin exactly 0.30 gives
   COMPRAR (+2), margin exactly 0.15 gives COMPRAR FRACO (+1), margin exactly
   0.05 gives NEUTRO (0). *)
C6_StrictBuyBoundaries ==
    Valued =>
        LET m == MarginTimesPrice
            pa == data.cotacao_atual
        IN  /\ m = 31 * pa => Recommends("COMPRAR FORTE", 3)
            /\ m = 30 * pa => Recommends("COMPRAR", 2)
            /\ m = 15 * pa => Recommends("COMPRAR FRACO", 1)
            /\ m = 5 * pa => Recommends("NEUTRO", 0)

\* margin exactly 0.30, indicators neutral: COMPRAR with score 2
C6_Witness ==
    /\ Valued
    /\ MarginTimesPrice = 30 * data.cotacao_atual
    /\ QualityIncrement(data) = 0
    /\ analysis.recommendation = "COMPRAR"
    /\ analysis.score = 2

\* payout_ratio = (cotacao_atual * dividend_yield) / lucro_por_acao lies in
\* [0, 1] (lucro_por_acao # 0): C*Y / (Scale * L), by the sign of L
PayoutInRange(d) ==
    LET dpa == d.cotacao_atual * d.dividend_yield
        L == d.lucro_por_acao
    IN  \/ L > 0 /\ 0 <= dpa /\ dpa <= Scale * L
        \/ L < 0 /\ Scale * L <= dpa /\ dpa <= 0

\* g = roe * (1 - payout_ratio) = R * (Scale*L - C*Y) / (Scale^2 * L)
\* satisfies 0 <= g < 0.12 (lucro_por_acao # 0), by the sign of L
GrowthInRange(d) ==
    LET L == d.lucro_por_acao
        num == d.roe * (Scale * L - d.cotacao_atual * d.dividend_yield)
    IN  \/ L > 0 /\ 0 <= num /\ num < 12 * Scale * L
        \/ L < 0 /\ 12 * Scale * L < num /\ num <= 0

DdmPreconditions(d) ==
    /\ d.cotacao_atual > 0
    /\ d.dividend_yield > 0
    /\ d.roe > 0
    /\ d.lucro_por_acao # 0
    /\ PayoutInRange(d)
    /\ GrowthInRange(d)

(* C7: ddm = 0.0 whenever a precondition fails: cotacao_atual <= 0,
   dividend_yield <= 0, roe <= 0, lucro_por_acao = 0, payout outside [0, 1],
   or g = roe * (1 - payout) not in [0, 0.12); ddm is positive only when all
   of them hold. *)
C7_DdmZeroUnlessPreconditions ==
    pc = "priced" =>
        /\ ~DdmPreconditions(data) => fair_prices.ddm = 0
        /\ fair_prices.ddm > 0 => DdmPreconditions(data)

\* every input positive and the payout in range, but g >= 0.12: ddm is 0
C7_Witness ==
    /\ pc = "priced"
    /\ data.cotacao_atual > 0 /\ data.dividend_yield > 0 /\ data.roe > 0
    /\ data.lucro_por_acao > 0
    /\ PayoutInRange(data)
    /\ ~GrowthInRange(data)
    /\ fair_prices.ddm = 0

(* C8, as stated: for every record 0 <= ddm <= 5 * cotacao_atual. *)
C8_DdmWithinFivePrices ==
    pc = "priced" =>
        /\ 0 <= fair_prices.ddm
        /\ fair_prices.ddm <= 5 * data.cotacao_atual

(* C8, amended: for every record ddm >= 0; ddm <= 5 * cotacao_atual whenever
   cotacao_atual >= 0, and ddm = 0.0 when cotacao_atual <= 0 (where
   5 * cotacao_atual is not an upper bound). *)
C8_DdmLimited ==
    pc = "priced" =>
        /\ 0 <= fair_prices.ddm
        /\ data.cotacao_atual >= 0 => fair_prices.ddm <= 5 * data.cotacao_atual
        /\ data.cotacao_atual <= 0 => fair_prices.ddm = 0

\* the limit binds: the unlimited value dpa * (1 + g) / (rr - g) is above
\* 5 * cotacao_atual (both sides divided by cotacao_atual > 0), ddm is
\* 5 * cotacao_atual
C8_Witness ==
    /\ pc = "priced"
    /\ DdmPreconditions(data)
    /\ LET L == data.lucro_por_acao
           num == data.roe * (Scale * L - data.cotacao_atual * data.dividend_yield)
       IN  data.dividend_yield * (Scale * Scale * L + num)
               > 5 * Scale * (12 * Scale * L - num)
    /\ fair_prices.ddm = 5 * data.cotacao_atual

(* C9: graham = round(sqrt(22.5 * lucro_por_acao * valor_patrimonial_acao), 2)
   when both are > 0 (21.21 for 2.0 and 10.0), and 0.0 whenever either is
   zero or negative; no absolute value is taken.  With g, L, V in
   hundredths, g is sqrt(22.5 * L * V) rounded to the nearest integer:
   (2g - 1)^2 <= 90 * L * V <= (2g + 1)^2. *)
C9_Graham ==
    pc = "priced" =>
        LET L == data.lucro_por_acao
            V == data.valor_patrimonial_acao
            g == fair_prices.graham
        IN  /\ (L > 0 /\ V > 0) =>
                /\ g >= 0
                /\ (2 * g - 1) * (2 * g - 1) <= 90 * L * V
                /\ 90 * L * V <= (2 * g + 1) * (2 * g + 1)
            /\ ~(L > 0 /\ V > 0) => g = 0
            /\ (L = 200 /\ V = 1000) => g = 2121

C9_Witness ==
    /\ pc = "priced"
    /\ data.lucro_por_acao = 200
    /\ data.valor_patrimonial_acao = 1000
    /\ fair_prices.graham = 2121

(* C10: pvp_adjusted = round(valor_patrimonial_acao * m, 2) with m = 2.5 if
   roe > 0.20, else 2.0 if roe > 0.15, else 1.5 if roe > 0.10, else 1.0,
   every threshold strict. *)
C10_PvpAdjusted ==
    pc = "priced" =>
        LET R == data.roe
            V == data.valor_patrimonial_acao
            p == fair_prices.pvp_adjusted
        IN  /\ R > 20 => Nearest(p, 25 * V, 10)
            /\ (15 < R /\ R <= 20) => Nearest(p, 20 * V, 10)
            /\ (10 < R /\ R <= 15) => Nearest(p, 15 * V, 10)
            /\ R <= 10 => Nearest(p, 10 * V, 10)

\* roe exactly 0.20: the multiplier is 2.0, not 2.5
C10_Witness ==
    /\ pc = "priced"
    /\ data.roe = 20
    /\ data.valor_patrimonial_acao = 1000
    /\ fair_prices.pvp_adjusted = 2000

(* C11: pe_adjusted = round(lucro_por_acao * m, 2) with
   m = min(8 + 1.5 * s, 25), s = (3 if roe > 0.15, else 2 if roe > 0.10,
   else 0) + (2 if liquidez_corrente > 1.5, else 0); m never exceeds 25.
   M2 below is 2 * m. *)
C11_PeAdjusted ==
    pc = "priced" =>
        LET R == data.roe
            Q == data.liquidez_corrente
            L == data.lucro_por_acao
            s == (IF R > 15 THEN 3 ELSE IF R > 10 THEN 2 ELSE 0)
                 + (IF Q > 150 THEN 2 ELSE 0)
            M2 == IF 16 + 3 * s <= 50 THEN 16 + 3 * s ELSE 50
        IN  /\ pl_justo_multiplicador(score_pl(R, Q)) = M2
            /\ M2 <= 50
            /\ Nearest(fair_prices.pe_adjusted, L * M2, 2)

\* roe exactly 0.15 and liquidez_corrente exactly 1.5: s = 2 and m = 11
C11_Witness ==
    /\ pc = "priced"
    /\ data.roe = 15
    /\ data.liquidez_corrente = 150
    /\ data.lucro_por_acao = 200
    /\ fair_prices.pe_adjusted = 2200

----------------------------------------------------------------------------
(* clean_value (lines 44-86)

   A text is a sequence of one-character strings; an optional text is None
   or Some(s).  The float that clean_value returns is carried as the exact
   decimal it denotes, [m, e] standing for m / 10^e in lowest form, so that
   1.50 and 1.5 are the same value.  A call ends by returning a value or by
   raising: Return(v) and Raise are the two outcomes. *)

None == <<>>

Some(s) == <<s>>

Digits == {"0", "1", "2", "3", "4", "5", "6", "7", "8", "9"}

DigitValue(c) ==
    CASE c = "0" -> 0 [] c = "1" -> 1 [] c = "2" -> 2 [] c = "3" -> 3
      [] c = "4" -> 4 [] c = "5" -> 5 [] c = "6" -> 6 [] c = "7" -> 7
      [] c = "8" -> 8 [] c = "9" -> 9

\* characters removed by str.strip(), among those that occur in the texts
Whitespace == {" ", "\n"}

RECURSIVE Pow10(_)
Pow10(n) == IF n = 0 THEN 1 ELSE 10 * Pow10(n - 1)

\* the decimal m / 10^e in lowest form
RECURSIVE Dec(_, _)
Dec(m, e) ==
    IF m = 0 THEN [m |-> 0, e |-> 0]
    ELSE IF e > 0 /\ m % 10 = 0 THEN Dec(m \div 10, e - 1)
    ELSE [m |-> m, e |-> e]

Zero == Dec(0, 0)

Return(v) == [raised |-> FALSE, value |-> v]

Raise == [raised |-> TRUE, value |-> Zero]

RECURSIVE lstrip(_)
lstrip(s) ==
    IF s # <<>> /\ Head(s) \in Whitespace THEN lstrip(Tail(s)) ELSE s

RECURSIVE rstrip(_)
rstrip(s) ==
    IF s # <<>> /\ s[Len(s)] \in Whitespace
    THEN rstrip(SubSeq(s, 1, Len(s) - 1))
    ELSE s

\* str.strip()
strip(s) == rstrip(lstrip(s))

\* str.startswith(prefix)
startswith(s, prefix) ==
    Len(s) >= Len(prefix) /\ SubSeq(s, 1, Len(prefix)) = prefix

\* sub in s
contains(s, sub) ==
    \E i \in 1..(Len(s) - Len(sub) + 1) : SubSeq(s, i, i + Len(sub) - 1) = sub

\* str.replace(old, new): every non-overlapping occurrence, left to right
RECURSIVE replace(_, _, _)
replace(s, old, new) ==
    IF s = <<>> THEN <<>>
    ELSE IF startswith(s, old)
         THEN new \o replace(SubSeq(s, Len(old) + 1, Len(s)), old, new)
         ELSE <<Head(s)>> \o replace(Tail(s), old, new)

\* Faulty variant of brazilian_format: the comma becomes a point before the
\* points are deleted.
brazilian_format_swapped(s) == replace(replace(s, <<",">>, <<".">>), <<".">>, <<>>)

\* lines 71-72: delete every '.', then turn every ',' into '.'
brazilian_format(s) == replace(replace(s, <<".">>, <<>>), <<",">>, <<".">>)

\* line 74: re.sub(r'[^\d\.\-]', '', cleaned_text)
re_sub_non_numeric(s) ==
    SelectSeq(s, LAMBDA c : c \in Digits \cup {".", "-"})

\* the numeral of a float literal without its sign
unsigned(s) == IF s # <<>> /\ Head(s) = "-" THEN Tail(s) ELSE s

\* Does float(s) accept s?  s holds only digits, '.' and '-' (line 74): an
\* optional sign, then digits with at most one point and at least one digit.
is_float_literal(s) ==
    LET body == unsigned(s)
    IN  /\ \A i \in 1..Len(body) : body[i] \in Digits \cup {"."}
        /\ Cardinality({i \in 1..Len(body) : body[i] = "."}) <= 1
        /\ \E i \in 1..Len(body) : body[i] \in Digits

RECURSIVE numeral(_)
numeral(ds) ==
    IF ds = <<>> THEN 0
    ELSE 10 * numeral(SubSeq(ds, 1, Len(ds) - 1)) + DigitValue(ds[Len(ds)])

\* the value of an accepted float literal
float_value(s) ==
    LET body == unsigned(s)
        point == {i \in 1..Len(body) : body[i] = "."}
        e == IF point = {} THEN 0 ELSE Len(body) - (CHOOSE i \in point : TRUE)
        m == numeral(SelectSeq(body, LAMBDA c : c \in Digits))
    IN  Dec(IF s[1] = "-" THEN -m ELSE m, e)

\* line 80: float(cleaned_text) returns the value or raises ValueError
float(s) == IF is_float_literal(s) THEN Return(float_value(s)) ELSE Raise

\* Faulty variant of except_ValueError: the exception reaches the caller.
except_ValueError_reraise(outcome) == outcome

\* lines 79-86: try ... except ValueError: return 0.0
except_ValueError(outcome) == IF outcome.raised THEN Return(Zero) ELSE outcome

\* line 82: value /= 100.0
div100(v) == Dec(v.m, v.e + 2)

clean_value(tv) ==
    IF tv = None THEN Return(Zero)
    ELSE
    LET text_value_stripped == strip(tv[1])
    IN  IF text_value_stripped = <<"-">> \/ text_value_stripped = <<>>
        THEN Return(Zero)
        ELSE
        LET no_currency ==
                IF contains(text_value_stripped, <<"R", "$">>)
                THEN strip(replace(text_value_stripped, <<"R", "$">>, <<>>))
                ELSE text_value_stripped
            is_percentage == contains(no_currency, <<"%">>)
            no_percent ==
                IF is_percentage
                THEN strip(replace(no_currency, <<"%">>, <<>>))
                ELSE no_currency
            cleaned_text == re_sub_non_numeric(brazilian_format(no_percent))
        IN  IF cleaned_text \in {<<>>, <<"-">>}
            THEN Return(Zero)
            ELSE except_ValueError(
                     LET parsed == float(cleaned_text)
                     IN  IF parsed.raised THEN parsed
                         ELSE IF is_percentage
                              THEN Return(div100(parsed.value))
                              ELSE parsed)

\* Texts given to clean_value: every text of at most MaxTextLen characters
\* of TextAlphabet, and the texts the properties name.
MaxTextLen == 4

TextAlphabet == {"0", "1", ".", ",", "-", "R", "$", "%", " ", "a"}

RECURSIVE Texts(_)
Texts(n) ==
    IF n = 0 THEN {<<>>}
    ELSE LET shorter == Texts(n - 1)
         IN  shorter \cup {Append(s, c) : s \in shorter, c \in TextAlphabet}

ExampleTexts ==
    { <<"1", ".", "2", "3", "4", ",", "5", "6">>,
      <<"1", "2", ",", "5", "%">>,
      <<"R", "$", " ", "1", "0", ",", "0", "0">>,
      <<"a", "b", "c">>,
      <<"1", "-", "2">>,
      <<"1", ",", "2", ",", "3">>,
      <<"-", "-">> }

CleanInputs == {None} \cup {Some(s) : s \in Texts(MaxTextLen) \cup ExampleTexts}

\* One call of clean_value(text_value)
CleanValue ==
    /\ clean_pc = "call"
    /\ clean_result' = clean_value(text_value)
    /\ clean_pc' = IF clean_result'.raised THEN "raise" ELSE "return"
    /\ UNCHANGED <<text_value, outside_clean>>

InitClean ==
    /\ clean_pc = "call"
    /\ text_value \in CleanInputs
    /\ clean_result = <<>>
    /\ OutsideCleanIdle

NextClean == CleanValue

SpecClean == InitClean /\ [][NextClean]_vars

----------------------------------------------------------------------------
(* Properties of clean_value *)

\* the text given to the call (text_value is not None)
GivenText == text_value[1]

\* the digits, signs and decimal commas of a text, in order: what is left of
\* it when the markers, the points, the spaces and the letters are gone
NumericPart(s) == SelectSeq(s, LAMBDA c : c \in Digits \cup {"-", ","})

\* k is a decimal numeral with a decimal comma: an optional leading sign,
\* no other sign, at most one comma, at least one digit
IsDecimal(k) ==
    /\ \A i \in 2..Len(k) : k[i] # "-"
    /\ Cardinality({i \in 1..Len(k) : k[i] = ","}) <= 1
    /\ \E i \in 1..Len(k) : k[i] \in Digits

(* C12: clean_value is total: None, the empty string, whitespace-only text
   and "-" return 0.0; every other string, malformed ones included, returns
   a float without raising, and 0.0 when what is left of the text does not
   parse as a number. *)
C12_Total ==
    clean_pc # "call" =>
        /\ clean_pc = "return"
        /\ ~clean_result.raised
        /\ clean_result.value.m \in Int
        /\ clean_result.value.e \in Nat
        /\ text_value = None => clean_result.value = Zero
        /\ text_value # None =>
            /\ (\A i \in 1..Len(GivenText) : GivenText[i] = " ")
                   => clean_result.value = Zero
            /\ GivenText = <<"-">> => clean_result.value = Zero
            /\ ~IsDecimal(NumericPart(GivenText)) => clean_result.value = Zero

\* "1-2" is cleaned to a text float() rejects, and the call returns 0.0
C12_Witness ==
    /\ clean_pc = "return"
    /\ text_value = Some(<<"1", "-", "2">>)
    /\ clean_result = Return(Zero)

\* Texts made of digits, '.', ',', '-', 'R$', '%' and spaces
IsFormatted(s) ==
    /\ \A i \in 1..Len(s) : s[i] \in Digits \cup {".", ",", "-", "R", "$", "%", " "}
    /\ \A i \in 1..Len(s) : s[i] = "R" => (i < Len(s) /\ s[i + 1] = "$")
    /\ \A i \in 1..Len(s) : s[i] = "$" => (i > 1 /\ s[i - 1] = "R")

\* The Brazilian-format reference: numerator and number of decimals of the
\* value of the numeric part k read as a decimal numeral with a comma.
ReferenceDigits(k) == SelectSeq(k, LAMBDA c : c \in Digits)

ReferenceNumerator(k) ==
    LET ds == ReferenceDigits(k)
        magnitude == SumSeq([i \in 1..Len(ds) |->
                                DigitValue(ds[i]) * Pow10(Len(ds) - i)])
    IN  IF k[1] = "-" THEN -magnitude ELSE magnitude

ReferenceDecimals(k) ==
    IF \E i \in 1..Len(k) : k[i] = ","
    THEN Len(k) - (CHOOSE i \in 1..Len(k) : k[i] = ",")
    ELSE 0

(* C13: for text made of digits, '.', ',', '-', 'R$', '%' and spaces,
   clean_value equals the Brazilian-format reference: markers removed, every
   '.' deleted, ',' read as the decimal point, the rest parsed as a decimal
   (0.0 when it is none) and divided by 100 exactly when a '%' was present;
   "1.234,56" gives 1234.56, "12,5%" gives 0.125, "R$ 10,00" gives 10.0. *)
C13_BrazilianFormat ==
    (clean_pc # "call" /\ text_value # None /\ IsFormatted(GivenText)) =>
        LET k == NumericPart(GivenText)
            v == clean_result.value
            percent == \E i \in 1..Len(GivenText) : GivenText[i] = "%"
            decimals == ReferenceDecimals(k) + (IF percent THEN 2 ELSE 0)
        IN  /\ ~clean_result.raised
            /\ IsDecimal(k) =>
                   v.m * Pow10(decimals) = ReferenceNumerator(k) * Pow10(v.e)
            /\ ~IsDecimal(k) => v = Zero
            /\ GivenText = <<"1", ".", "2", "3", "4", ",", "5", "6">>
                   => v = [m |-> 123456, e |-> 2]
            /\ GivenText = <<"1", "2", ",", "5", "%">>
                   => v = [m |-> 125, e |-> 3]
            /\ GivenText = <<"R", "$", " ", "1", "0", ",", "0", "0">>
                   => v = [m |-> 10, e |-> 0]

\* "1.234,56": the point is a thousands separator, the comma the decimal
\* separator
C13_Witness ==
    /\ clean_pc = "return"
    /\ text_value = Some(<<"1", ".", "2", "3", "4", ",", "5", "6">>)
    /\ clean_result.value = [m |-> 123456, e |-> 2]

----------------------------------------------------------------------------
(* _extract_table_data (lines 88-150)

   html_soup is the sequence of the document's top-level elements in
   document order.  An element is a table with its rows, or a span of class
   txt that no table encloses.  A row holds the text of the span of its
   td.nivel2 cell ("" when it has none), the texts of the spans of its
   td.label cells and the texts of the spans of its td.data cells.  A label
   text is a string, "" when the cell has no span or no text; a value text
   is an optional text, None when the cell has no span or no text.  Texts
   are given as .string.strip() leaves them. *)

Table(rows) == [name |-> "table", string |-> "", rows |-> rows]

Span(string) == [name |-> "span", string |-> string, rows |-> <<>>]

Row(nivel2, label_cells, data_cells) ==
    [nivel2 |-> nivel2, label_cells |-> label_cells, data_cells |-> data_cells]

\* the texts of the span.txt elements of an element that can equal a title
span_strings(element) ==
    IF element.name = "span" THEN {element.string}
    ELSE UNION { {element.rows[r].nivel2}
                 \cup {element.rows[r].label_cells[i] :
                          i \in 1..Len(element.rows[r].label_cells)} :
                 r \in 1..Len(element.rows) }

\* line 97: html_soup.find(...), the first span.txt of the document whose
\* text is the candidate; the result is the index of the element holding
\* it, 0 for None
find(doc, title_text_candidate) ==
    LET hits == {e \in 1..Len(doc) :
                    title_text_candidate \in span_strings(doc[e])}
    IN  IF hits = {} THEN 0 ELSE CHOOSE e \in hits : \A h \in hits : e <= h

\* The argument table_title_texts is a list of titles or one title.
TitleList(titles) == [is_list |-> TRUE, list |-> titles, title |-> ""]

OneTitle(title) == [is_list |-> FALSE, list |-> <<>>, title |-> title]

\* lines 90-91: a title that is not a list is wrapped in one
as_list(titles) == IF titles.is_list THEN titles.list ELSE <<titles.title>>

NotFound == [found_table |-> 0, title_text_found |-> ""]

\* Faulty variant of locate: the loop does not stop at the first table found.
RECURSIVE locate_last(_, _, _)
locate_last(doc, titles, k) ==
    IF k > Len(titles) THEN NotFound
    ELSE LET title_span == find(doc, titles[k])
             later == locate_last(doc, titles, k + 1)
         IN  IF later # NotFound THEN later
             ELSE IF title_span # 0 /\ doc[title_span].name = "table"
                  THEN [found_table |-> title_span, title_text_found |-> titles[k]]
                  ELSE NotFound

\* lines 95-109: the loop over the candidates from the k-th on; the parent
\* chain of the span found ends in the table that holds it or in no table
RECURSIVE locate(_, _, _)
locate(doc, titles, k) ==
    IF k > Len(titles) THEN NotFound
    ELSE LET title_span == find(doc, titles[k])
         IN  IF title_span # 0 /\ doc[title_span].name = "table"
             THEN [found_table |-> title_span, title_text_found |-> titles[k]]
             ELSE locate(doc, titles, k + 1)

\* line 114
is_dre_table(title) ==
    title \in {"Dados demonstrativos de resultados", "Demonstrativo de Resultados"}

\* line 138
HeadlineLabels == {"Receita Liquida", "EBIT", "Lucro Liquido"}

\* Faulty variant of key_to_store: the second occurrence is tagged like the
\* first.
key_to_store_one_tag(label_orig, is_dre, order) ==
    IF is_dre /\ label_orig \in HeadlineLabels
    THEN label_orig \o " (Ultimos 12 meses)"
    ELSE label_orig

\* lines 137-143
key_to_store(label_orig, is_dre, order) ==
    IF is_dre /\ label_orig \in HeadlineLabels
    THEN IF \A k \in 1..Len(order) : order[k] # label_orig
         THEN label_orig \o " (Ultimos 12 meses)"
         ELSE label_orig \o " (Ultimos 3 meses)"
    ELSE label_orig

\* Faulty variant of store: a key already present is overwritten.
store_overwrite(map, key, value) ==
    [k \in DOMAIN map \cup {key} |-> IF k = key THEN value ELSE map[k]]

\* lines 145-146: if key_to_store not in table_data: table_data[key] = value
store(map, key, value) ==
    IF key \in DOMAIN map THEN map
    ELSE [k \in DOMAIN map \cup {key} |-> IF k = key THEN value ELSE map[k]]

\* lines 124-146: the body of the loop over the label cells of a row, for
\* the i-th label cell (i counts from 0); st holds table_data and
\* dre_labels_order
extract_pair(st, row, i, is_dre) ==
    IF i < Len(row.data_cells)
    THEN LET label_orig == row.label_cells[i + 1]
             value_str == row.data_cells[i + 1]
         IN  IF label_orig # "" /\ value_str # None /\ value_str # Some(<<>>)
             THEN [table_data |->
                       store(st.table_data,
                             key_to_store(label_orig, is_dre, st.dre_labels_order),
                             clean_value(value_str).value),
                   dre_labels_order |->
                       IF /\ is_dre
                          /\ label_orig \in HeadlineLabels
                          /\ \A k \in 1..Len(st.dre_labels_order) :
                                 st.dre_labels_order[k] # label_orig
                       THEN Append(st.dre_labels_order, label_orig)
                       ELSE st.dre_labels_order]
             ELSE st
    ELSE st

\* lines 119-122: the header row at position zero is skipped
is_header_row(row, idx) ==
    /\ row.label_cells = <<>>
    /\ row.data_cells = <<>>
    /\ idx = 0
    /\ row.nivel2 # ""

\* lines 124-146: the loop over the label cells of a row, from the i-th on
RECURSIVE extract_row(_, _, _, _)
extract_row(st, row, i, is_dre) ==
    IF i >= Len(row.label_cells) THEN st
    ELSE extract_row(extract_pair(st, row, i, is_dre), row, i + 1, is_dre)

\* lines 116-146: the loop over the rows, from position idx on
RECURSIVE extract_rows(_, _, _, _)
extract_rows(st, rows, idx, is_dre) ==
    IF idx >= Len(rows) THEN st
    ELSE extract_rows(IF is_header_row(rows[idx + 1], idx) THEN st
                      ELSE extract_row(st, rows[idx + 1], 0, is_dre),
                      rows, idx + 1, is_dre)

EmptyMap == <<>>

\* _extract_table_data as a function of its arguments
extract_table_data(doc, titles) ==
    LET where == locate(doc, as_list(titles), 1)
    IN  IF where.found_table # 0
        THEN extract_rows([table_data |-> EmptyMap, dre_labels_order |-> <<>>],
                          doc[where.found_table].rows, 0,
                          is_dre_table(where.title_text_found)).table_data
        ELSE EmptyMap

\* Documents for the row walk: one section under a heading, its label/value
\* pairs laid out `width` to a row.  The p-th pair of the section carries
\* its own value, "p,5", so that a stored value tells which pair wrote it.
MaxPairs == 3

PairLabels == {"", "EBIT", "Receita Liquida", "Lucro Liquido", "Ativo Circulante"}

DigitChars == <<"1", "2", "3", "4", "5", "6", "7", "8", "9">>

ValueAt(p) == Some(<<DigitChars[p], ",", "5">>)

\* a pair is a label text and whether its data cell has text
PairSeqs ==
    UNION { [1..n -> PairLabels \X BOOLEAN] : n \in 0..MaxPairs }

\* the data cells of the pairs from..to: textless cells at the end of the
\* row are left out, so that the row has fewer data cells than label cells
RECURSIVE drop_missing(_)
drop_missing(cells) ==
    IF cells # <<>> /\ cells[Len(cells)] = None
    THEN drop_missing(SubSeq(cells, 1, Len(cells) - 1))
    ELSE cells

PairRow(pairs, from, to) ==
    Row("",
        [i \in 1..(to - from + 1) |-> pairs[from + i - 1][1]],
        drop_missing([i \in 1..(to - from + 1) |->
                         IF pairs[from + i - 1][2] THEN ValueAt(from + i - 1)
                         ELSE None]))

RECURSIVE PairRows(_, _, _)
PairRows(pairs, from, width) ==
    IF from > Len(pairs) THEN <<>>
    ELSE <<PairRow(pairs, from, Min(from + width - 1, Len(pairs)))>>
         \o PairRows(pairs, from + width, width)

Section(title, pairs, width) ==
    Table(<<Row(title, <<>>, <<>>)>> \o PairRows(pairs, 1, width))

DreTitles == <<"Dados demonstrativos de resultados", "Demonstrativo de Resultados">>

BalancoTitles == <<"Dados Balanco Patrimonial", "Balanco Patrimonial">>

WalkInputs ==
    { <<(<<Section(title[1], pairs, width)>>), TitleList(title[2])>> :
        title \in {<<DreTitles[2], DreTitles>>, <<BalancoTitles[2], BalancoTitles>>},
        pairs \in PairSeqs, width \in {1, 2} }

\* Documents for the search: up to MaxElements elements, each a section
\* under one of three headings or a span with that text outside any table;
\* the section at position e holds the one pair 'Ativo Total' -> "e,5".
MaxElements == 3

SearchTitles == {DreTitles[1], DreTitles[2], BalancoTitles[1]}

SearchElement(kind, title, e) ==
    IF kind = "table"
    THEN Table(<<Row(title, <<>>, <<>>), Row("", <<"Ativo Total">>, <<ValueAt(e)>>)>>)
    ELSE Span(title)

SearchSoups ==
    UNION { { [e \in 1..n |-> SearchElement(f[e][1], f[e][2], e)] :
                f \in [1..n -> {"table", "span"} \X SearchTitles] } :
            n \in 0..MaxElements }

SearchTitleTexts ==
    { TitleList(t) : t \in UNION { [1..n -> SearchTitles] : n \in 0..2 } }
    \cup { OneTitle(t) : t \in SearchTitles }

SearchInputs == SearchSoups \X SearchTitleTexts

\* lines 89-114: the search for the table
FindTable ==
    /\ table_pc = "call"
    /\ LET where == locate(html_soup, as_list(table_title_texts), 1)
       IN  /\ found_table' = where.found_table
           /\ title_text_found' = where.title_text_found
           /\ table_pc' = IF where.found_table # 0 THEN "rows" ELSE "return"
    /\ table_data' = EmptyMap
    /\ dre_labels_order' = <<>>
    /\ row_idx' = 0
    /\ cell_idx' = 0
    /\ UNCHANGED <<html_soup, table_title_texts, outside_table>>

CurrentRows == html_soup[found_table].rows

\* lines 124-146: one pass of the loop over the label cells of the row
ExtractPair ==
    /\ table_pc = "rows"
    /\ row_idx < Len(CurrentRows)
    /\ ~is_header_row(CurrentRows[row_idx + 1], row_idx)
    /\ cell_idx < Len(CurrentRows[row_idx + 1].label_cells)
    /\ LET st == extract_pair([table_data |-> table_data,
                               dre_labels_order |-> dre_labels_order],
                              CurrentRows[row_idx + 1], cell_idx,
                              is_dre_table(title_text_found))
       IN  /\ table_data' = st.table_data
           /\ dre_labels_order' = st.dre_labels_order
    /\ cell_idx' = cell_idx + 1
    /\ UNCHANGED <<html_soup, table_title_texts, table_pc, found_table,
                   title_text_found, row_idx, outside_table>>

\* lines 116-122: the row is done, or is the header row: on to the next row
NextRow ==
    /\ table_pc = "rows"
    /\ row_idx < Len(CurrentRows)
    /\ \/ is_header_row(CurrentRows[row_idx + 1], row_idx)
       \/ cell_idx >= Len(CurrentRows[row_idx + 1].label_cells)
    /\ row_idx' = row_idx + 1
    /\ cell_idx' = 0
    /\ UNCHANGED <<html_soup, table_title_texts, table_pc, found_table,
                   title_text_found, dre_labels_order, table_data,
                   outside_table>>

\* line 150: return table_data
ReturnTableData ==
    /\ table_pc = "rows"
    /\ row_idx >= Len(CurrentRows)
    /\ table_pc' = "return"
    /\ UNCHANGED <<html_soup, table_title_texts, found_table, title_text_found,
                   row_idx, cell_idx, dre_labels_order, table_data,
                   outside_table>>

InitTable ==
    /\ table_pc = "call"
    /\ \E in \in WalkInputs \cup SearchInputs :
           html_soup = in[1] /\ table_title_texts = in[2]
    /\ found_table = 0
    /\ title_text_found = ""
    /\ row_idx = 0
    /\ cell_idx = 0
    /\ dre_labels_order = <<>>
    /\ table_data = EmptyMap
    /\ OutsideTableIdle

NextTable == FindTable \/ ExtractPair \/ NextRow \/ ReturnTableData

SpecTable == InitTable /\ [][NextTable]_vars

\* the walk, step by step, ends with what extract_table_data computes
TableWalkAgrees ==
    table_pc = "return" =>
        table_data = extract_table_data(html_soup, table_title_texts)

----------------------------------------------------------------------------
(* Properties of _extract_table_data *)

\* element e of the document holds a span whose text is the title t
Carries(e, t) ==
    IF html_soup[e].name = "span" THEN html_soup[e].string = t
    ELSE \E r \in 1..Len(html_soup[e].rows) :
             \/ html_soup[e].rows[r].nivel2 = t
             \/ \E i \in 1..Len(html_soup[e].rows[r].label_cells) :
                    html_soup[e].rows[r].label_cells[i] = t

\* the first element of the document that carries t (some element does)
FirstCarrier(t) ==
    CHOOSE e \in 1..Len(html_soup) :
        Carries(e, t) /\ \A h \in 1..(e - 1) : ~Carries(h, t)

\* t matches a section heading: the first span with the text t lies in a
\* table
MatchesSection(t) ==
    /\ \E e \in 1..Len(html_soup) : Carries(e, t)
    /\ html_soup[FirstCarrier(t)].name = "table"

\* the label/value pairs of the rows: positions <<r, i>>, row r and cell i
\* counted from 1, where the label cell and the data cell both have text
CompletePairs(rows) ==
    UNION { { <<r, i>> : i \in { j \in 1..Len(rows[r].label_cells) :
                                  /\ j <= Len(rows[r].data_cells)
                                  /\ rows[r].label_cells[j] # ""
                                  /\ rows[r].data_cells[j] # None } } :
            r \in 1..Len(rows) }

\* document order of positions
Before(a, b) == a[1] < b[1] \/ (a[1] = b[1] /\ a[2] < b[2])

LabelAt(rows, a) == rows[a[1]].label_cells[a[2]]

ValueOfPair(rows, a) == clean_value(rows[a[1]].data_cells[a[2]]).value

\* the complete pairs labelled L, and the n-th of them in document order
Occurrences(rows, L) == {a \in CompletePairs(rows) : LabelAt(rows, a) = L}

NthOccurrence(rows, L, n) ==
    CHOOSE a \in Occurrences(rows, L) :
        Cardinality({b \in Occurrences(rows, L) : Before(b, a)}) = n - 1

InIncomeStatement ==
    /\ found_table # 0
    /\ title_text_found \in {DreTitles[1], DreTitles[2]}

(* C14: in the income-statement section, for each of the labels 'Receita
   Liquida', 'EBIT' and 'Lucro Liquido' that appears twice (as a label/value
   pair with text in both cells), the result holds the value of the first
   occurrence in document order under '<label> (Ultimos 12 meses)' and the
   value of the second under '<label> (Ultimos 3 meses)'. *)
C14_TwelveThenThree ==
    (table_pc = "return" /\ InIncomeStatement) =>
        \A L \in {"Receita Liquida", "EBIT", "Lucro Liquido"} :
            Cardinality(Occurrences(CurrentRows, L)) >= 2 =>
                /\ (L \o " (Ultimos 12 meses)") \in DOMAIN table_data
                /\ (L \o " (Ultimos 3 meses)") \in DOMAIN table_data
                /\ table_data[L \o " (Ultimos 12 meses)"]
                       = ValueOfPair(CurrentRows, NthOccurrence(CurrentRows, L, 1))
                /\ table_data[L \o " (Ultimos 3 meses)"]
                       = ValueOfPair(CurrentRows, NthOccurrence(CurrentRows, L, 2))

\* a row with EBIT twice, 1,5 then 2,5
C14_Witness ==
    /\ table_pc = "return"
    /\ html_soup = <<Section(DreTitles[2],
                             <<(<<"EBIT", TRUE>>), (<<"EBIT", TRUE>>)>>, 2)>>
    /\ table_data["EBIT (Ultimos 12 meses)"] = [m |-> 15, e |-> 1]
    /\ table_data["EBIT (Ultimos 3 meses)"] = [m |-> 25, e |-> 1]

(* C15: the candidate titles are tried in the given order and the result is
   extracted from the table of the first candidate that matches a section
   heading, later candidates being ignored even if they match; when no
   candidate matches the result is the empty mapping. *)
C15_FirstCandidateWins ==
    table_pc # "call" =>
        LET titles == IF table_title_texts.is_list THEN table_title_texts.list
                      ELSE <<table_title_texts.title>>
            matching == {k \in 1..Len(titles) : MatchesSection(titles[k])}
        IN  IF matching = {}
            THEN /\ table_pc = "return"
                 /\ found_table = 0
                 /\ table_data = EmptyMap
            ELSE LET k == CHOOSE k \in matching : \A j \in matching : k <= j
                     e == FirstCarrier(titles[k])
                 IN  /\ found_table = e
                     /\ title_text_found = titles[k]
                     /\ (table_pc = "return"
                         /\ html_soup[e] = SearchElement("table", titles[k], e))
                            => table_data = [x \in {"Ativo Total"} |->
                                                [m |-> 10 * e + 5, e |-> 1]]

\* both candidates match; the section of the first candidate comes second
\* in the document and is the one extracted
C15_Witness ==
    /\ table_pc = "return"
    /\ table_title_texts = TitleList(DreTitles)
    /\ html_soup = <<SearchElement("table", DreTitles[2], 1),
                     SearchElement("table", DreTitles[1], 2)>>
    /\ found_table = 2
    /\ table_data["Ativo Total"] = [m |-> 25, e |-> 1]

\* the pairs the walk has passed: rows before row_idx, and the cells of row
\* row_idx before cell_idx (both count from 0, positions from 1)
Passed(a) == a[1] - 1 < row_idx \/ (a[1] - 1 = row_idx /\ a[2] - 1 < cell_idx)

\* the key a complete pair is stored under
KeyOfPair(rows, a) ==
    LET L == LabelAt(rows, a)
    IN  IF InIncomeStatement /\ L \in {"Receita Liquida", "EBIT", "Lucro Liquido"}
        THEN IF a = NthOccurrence(rows, L, 1)
             THEN L \o " (Ultimos 12 meses)"
             ELSE L \o " (Ultimos 3 meses)"
        ELSE L

\* after any prefix of the rows the result holds exactly the keys of the
\* pairs passed, each with the value of the first pair that produced it
FirstPairKept ==
    (table_pc \in {"rows", "return"} /\ found_table # 0) =>
        LET passed == {a \in CompletePairs(CurrentRows) : Passed(a)}
        IN  /\ DOMAIN table_data = {KeyOfPair(CurrentRows, a) : a \in passed}
            /\ \A a \in passed :
                   (\A b \in passed :
                        KeyOfPair(CurrentRows, b) = KeyOfPair(CurrentRows, a)
                            => ~Before(b, a))
                   => table_data[KeyOfPair(CurrentRows, a)]
                          = ValueOfPair(CurrentRows, a)

\* a step neither changes nor removes a key of the result
KeysKept ==
    \A k \in DOMAIN table_data :
        k \in DOMAIN table_data' /\ table_data'[k] = table_data[k]

\* a step over a headline label whose two keys are already written leaves
\* the result as it is
LaterOccurrenceDropped ==
    (/\ table_pc = "rows"
     /\ cell_idx' = cell_idx + 1
     /\ InIncomeStatement
     /\ \E L \in {"Receita Liquida", "EBIT", "Lucro Liquido"} :
            /\ CurrentRows[row_idx + 1].label_cells[cell_idx + 1] = L
            /\ (L \o " (Ultimos 12 meses)") \in DOMAIN table_data
            /\ (L \o " (Ultimos 3 meses)") \in DOMAIN table_data)
    => table_data' = table_data

(* C16: while the rows of a section are walked, a key once written to the
   result is never changed or removed by a later label/value pair: after
   any prefix of the rows every key keeps the value of the first pair that
   produced it, and third and later occurrences of an income-statement
   headline label are dropped. *)
C16_FirstWriteWins ==
    /\ [][KeysKept /\ LaterOccurrenceDropped]_vars
    /\ []FirstPairKept

\* EBIT three times, 1,5 then 2,5 then 3,5: the third value is nowhere in
\* the result
C16_Witness ==
    /\ table_pc = "return"
    /\ html_soup = <<Section(DreTitles[2],
                             <<(<<"EBIT", TRUE>>), (<<"EBIT", TRUE>>),
                               (<<"EBIT", TRUE>>)>>, 1)>>
    /\ DOMAIN table_data = {"EBIT (Ultimos 12 meses)", "EBIT (Ultimos 3 meses)"}
    /\ table_data["EBIT (Ultimos 12 meses)"] = [m |-> 15, e |-> 1]
    /\ table_data["EBIT (Ultimos 3 meses)"] = [m |-> 25, e |-> 1]

----------------------------------------------------------------------------
(* extract_financial_data (lines 152-246)

   The cells of a row stand in the order of the source's pages: the
   td.nivel2 cell first, then label and data cells in turn (label 1, data 1,
   label 2, data 2, ...); a row with fewer data cells than label cells ends
   with label cells only.  The quotient of two values is carried as a
   fraction [num, den] in lowest terms. *)

\* lines 155-165 (the strings without accents)
main_indicators_mapping ==
    << <<"Cotacao", "cotacao_atual">>,
       <<"P/L", "preco_lucro">>,
       <<"P/VP", "preco_valor_patrimonial">>,
       <<"P/EBIT", "preco_ebit">>,
       <<"PSR", "price_sales_ratio">>,
       <<"EV / EBITDA", "ev_ebitda">>,
       <<"Div. Yield", "dividend_yield">>,
       <<"LPA", "lucro_por_acao">>,
       <<"VPA", "valor_patrimonial_acao">>,
       <<"Marg. Bruta", "margem_bruta">>,
       <<"Marg. EBIT", "margem_ebit">>,
       <<"Marg. Liquida", "margem_liquida">>,
       <<"ROE", "roe">>,
       <<"ROIC", "roic">>,
       <<"Liquidez Corr", "liquidez_corrente">>,
       <<"Div Br/ Patrim", "divida_bruta_patrimonio">>,
       <<"Cres. Rec (5a)", "cres_receita_5a">>,
       <<"Valor da Firma", "enterprise_value">>,
       <<"Nro. Acoes", "numero_acoes">> >>

\* the characters of a label text, for a label cell read as a value cell
text_of(label) ==
    CASE label = "Cotacao" -> <<"C", "o", "t", "a", "c", "a", "o">>
      [] label = "P/L" -> <<"P", "/", "L">>
      [] label = "P/VP" -> <<"P", "/", "V", "P">>
      [] label = "P/EBIT" -> <<"P", "/", "E", "B", "I", "T">>
      [] label = "PSR" -> <<"P", "S", "R">>
      [] label = "EV / EBITDA" -> <<"E", "V", " ", "/", " ", "E", "B", "I", "T", "D", "A">>
      [] label = "Div. Yield" -> <<"D", "i", "v", ".", " ", "Y", "i", "e", "l", "d">>
      [] label = "LPA" -> <<"L", "P", "A">>
      [] label = "VPA" -> <<"V", "P", "A">>
      [] label = "Marg. Bruta" -> <<"M", "a", "r", "g", ".", " ", "B", "r", "u", "t", "a">>
      [] label = "Marg. EBIT" -> <<"M", "a", "r", "g", ".", " ", "E", "B", "I", "T">>
      [] label = "Marg. Liquida" -> <<"M", "a", "r", "g", ".", " ", "L", "i", "q", "u", "i", "d", "a">>
      [] label = "ROE" -> <<"R", "O", "E">>
      [] label = "ROIC" -> <<"R", "O", "I", "C">>
      [] label = "Liquidez Corr" -> <<"L", "i", "q", "u", "i", "d", "e", "z", " ", "C", "o", "r", "r">>
      [] label = "Div Br/ Patrim" -> <<"D", "i", "v", " ", "B", "r", "/", " ", "P", "a", "t", "r", "i", "m">>
      [] label = "Cres. Rec (5a)" -> <<"C", "r", "e", "s", ".", " ", "R", "e", "c", " ", "(", "5", "a", ")">>
      [] label = "Valor da Firma" -> <<"V", "a", "l", "o", "r", " ", "d", "a", " ", "F", "i", "r", "m", "a">>
      [] label = "Nro. Acoes" -> <<"N", "r", "o", ".", " ", "A", "c", "o", "e", "s">>
      [] label = "EBIT" -> <<"E", "B", "I", "T">>
      [] label = "Receita Liquida" -> <<"R", "e", "c", "e", "i", "t", "a", " ", "L", "i", "q", "u", "i", "d", "a">>
      [] label = "Lucro Liquido" -> <<"L", "u", "c", "r", "o", " ", "L", "i", "q", "u", "i", "d", "o">>
      [] label = "Ativo Circulante" -> <<"A", "t", "i", "v", "o", " ", "C", "i", "r", "c", "u", "l", "a", "n", "t", "e">>
      [] label = "Passivo Circulante" -> <<"P", "a", "s", "s", "i", "v", "o", " ", "C", "i", "r", "c", "u", "l", "a", "n", "t", "e">>
      [] label = "Ativo Imobilizado" -> <<"A", "t", "i", "v", "o", " ", "I", "m", "o", "b", "i", "l", "i", "z", "a", "d", "o">>
      [] label = "Imobilizado" -> <<"I", "m", "o", "b", "i", "l", "i", "z", "a", "d", "o">>
      [] label = "Ativo Nao Circulante" -> <<"A", "t", "i", "v", "o", " ", "N", "a", "o", " ", "C", "i", "r", "c", "u", "l", "a", "n", "t", "e">>
      [] label = "Patrim. Liq" -> <<"P", "a", "t", "r", "i", "m", ".", " ", "L", "i", "q">>
      [] label = "Empresa" -> <<"E", "m", "p", "r", "e", "s", "a">>
      [] label = "Papel" -> <<"P", "a", "p", "e", "l">>
      [] label = "Ativo Total" -> <<"A", "t", "i", "v", "o", " ", "T", "o", "t", "a", "l">>

\* positions <<e, r, i>> of the label cells (element e, row r, cell i, all
\* counted from 1) whose span has the text display_label
label_positions(doc, display_label) ==
    UNION { UNION { { <<e, r, i>> :
                        i \in { j \in 1..Len(doc[e].rows[r].label_cells) :
                                  doc[e].rows[r].label_cells[j] = display_label } } :
                    r \in 1..Len(doc[e].rows) } :
            e \in 1..Len(doc) }

\* document order of positions <<e, r, i>>
Precedes(a, b) ==
    \/ a[1] < b[1]
    \/ a[1] = b[1] /\ a[2] < b[2]
    \/ a[1] = b[1] /\ a[2] = b[2] /\ a[3] < b[3]

\* lines 170-177: found_span_for_label, the first span with the label's text
\* whose parent td has the class label
first_label(doc, display_label) ==
    CHOOSE a \in label_positions(doc, display_label) :
        \A b \in label_positions(doc, display_label) : a = b \/ Precedes(a, b)

\* lines 179-188: text_to_convert, the text of the span of the next td.data
\* sibling of the label cell, else of its next td sibling; None without one
text_to_convert(doc, display_label) ==
    IF label_positions(doc, display_label) = {} THEN None
    ELSE LET a == first_label(doc, display_label)
             row == doc[a[1]].rows[a[2]]
             i == a[3]
         IN  IF i <= Len(row.data_cells)
             THEN IF row.data_cells[i] = Some(<<>>) THEN None
                  ELSE row.data_cells[i]
             ELSE IF i < Len(row.label_cells) /\ row.label_cells[i + 1] # ""
                  THEN Some(text_of(row.label_cells[i + 1]))
                  ELSE None

\* data[key] = value
assign(map, key, value) ==
    [k \in DOMAIN map \cup {key} |-> IF k = key THEN value ELSE map[k]]

\* map.get(key, default)
get(map, key, default) == IF key \in DOMAIN map THEN map[key] ELSE default

\* Faulty variant of record_indicator: an indicator without text is left out.
record_indicator_if_found(map, key, text) ==
    IF text = None THEN map ELSE assign(map, key, clean_value(text).value)

\* line 190: data[key] = self.clean_value(text_to_convert)
record_indicator(map, key, text) == assign(map, key, clean_value(text).value)

\* lines 169-192: the loop over the catalog, from its k-th entry on
RECURSIVE main_indicators(_, _, _)
main_indicators(doc, map, k) ==
    IF k > Len(main_indicators_mapping) THEN map
    ELSE main_indicators(doc,
                         record_indicator(map, main_indicators_mapping[k][2],
                                          text_to_convert(doc, main_indicators_mapping[k][1])),
                         k + 1)

\* a - b and a + b of two decimals
dec_sub(a, b) ==
    LET e == Max(a.e, b.e)
    IN  Dec(a.m * Pow10(e - a.e) - b.m * Pow10(e - b.e), e)

dec_add(a, b) ==
    LET e == Max(a.e, b.e)
    IN  Dec(a.m * Pow10(e - a.e) + b.m * Pow10(e - b.e), e)

RECURSIVE GCD(_, _)
GCD(a, b) == IF b = 0 THEN a ELSE GCD(b, a % b)

\* the fraction n / d in lowest terms, d # 0
Ratio(n, d) ==
    LET g == GCD(Abs(n), Abs(d))
        sign == IF d < 0 THEN -1 ELSE 1
    IN  [num |-> sign * (n \div g), den |-> sign * (d \div g)]

\* 0.0 where a quotient is expected
ZeroRatio == Ratio(0, 1)

\* a / b: the quotient, or ZeroDivisionError
true_div(a, b) ==
    IF b = Zero THEN Raise
    ELSE [raised |-> FALSE,
          value |-> Ratio(a.m * Pow10(b.e), b.m * Pow10(a.e))]

\* Faulty variant of truthy: the divisor is not tested.
truthy_always(v) == TRUE

\* the truth value of a float: it is not zero
truthy(v) == v # Zero

\* (a / b) if b else 0.0
div_if(a, b) ==
    IF truthy(b) THEN true_div(a, b) ELSE [raised |-> FALSE, value |-> ZeroRatio]


\* positions of the spans with the text 'Empresa': <<e, 0, 0>> for a span
\* outside any table, <<e, r, 0>> for the span of a td.nivel2 cell,
\* <<e, r, i>> for the span of the i-th label cell
empresa_positions(doc) ==
    { <<e, 0, 0>> : e \in { x \in 1..Len(doc) :
                              doc[x].name = "span" /\ doc[x].string = "Empresa" } }
    \cup UNION { { <<e, r, 0>> : r \in { y \in 1..Len(doc[e].rows) :
                                           doc[e].rows[y].nivel2 = "Empresa" } } :
                 e \in 1..Len(doc) }
    \cup label_positions(doc, "Empresa")

NA == <<"N", "/", "A">>

\* lines 216-226
nome_empresa_completo(doc) ==
    IF empresa_positions(doc) = {} THEN NA
    ELSE LET a == CHOOSE x \in empresa_positions(doc) :
                      \A y \in empresa_positions(doc) : x = y \/ Precedes(x, y)
         IN  IF a[3] = 0 THEN NA
             ELSE LET row == doc[a[1]].rows[a[2]]
                  IN  IF /\ a[3] <= Len(row.data_cells)
                         /\ row.data_cells[a[3]] # None
                         /\ row.data_cells[a[3]] # Some(<<>>)
                      THEN row.data_cells[a[3]][1]
                      ELSE NA

\* lines 205-208: ativo_imobilizado_liquido
ativo_imobilizado_liquido(balanco_data) ==
    LET first == get(balanco_data, "Ativo Imobilizado",
                     get(balanco_data, "Imobilizado", Zero))
    IN  IF first = Zero THEN get(balanco_data, "Ativo Nao Circulante", Zero)
        ELSE first

\* lines 194-212: the statement figures written into data
statement_indicators(map, dados_dre, balanco_data) ==
    LET d1 == assign(map, "ebit_12m",
                     get(dados_dre, "EBIT (Ultimos 12 meses)",
                         get(dados_dre, "EBIT", Zero)))
        d2 == assign(d1, "lucro_liquido_12m",
                     get(dados_dre, "Lucro Liquido (Ultimos 12 meses)",
                         get(dados_dre, "Lucro Liquido", Zero)))
        d3 == assign(d2, "receita_liquida_12m",
                     get(dados_dre, "Receita Liquida (Ultimos 12 meses)",
                         get(dados_dre, "Receita Liquida", Zero)))
        d4 == assign(d3, "ativo_circulante",
                     get(balanco_data, "Ativo Circulante", Zero))
        d5 == assign(d4, "passivo_circulante",
                     get(balanco_data, "Passivo Circulante", Zero))
        d6 == assign(d5, "ativo_imobilizado_liquido",
                     ativo_imobilizado_liquido(balanco_data))
    IN  assign(d6, "patrimonio_liquido_total",
               get(balanco_data, "Patrim. Liq",
                   get(d6, "patrimonio_liquido_total", Zero)))

\* lines 228-246: the Greenblatt figures written into data, and the return;
\* a division by zero raises
greenblatt(map) ==
    LET ev_g == get(map, "enterprise_value", Zero)
        ebit_g == get(map, "ebit_12m", Zero)
        nwc_g == dec_sub(map["ativo_circulante"], map["passivo_circulante"])
        nfa_g == map["ativo_imobilizado_liquido"]
        d9 == assign(assign(assign(assign(map,
                  "greenblatt_nwc_calculado", nwc_g),
                  "greenblatt_nfa_usado", nfa_g),
                  "greenblatt_ebit_usado", ebit_g),
                  "greenblatt_ev_usado", ev_g)
        earnings_yield == div_if(ebit_g, ev_g)
        capital_investido_g == dec_add(nwc_g, nfa_g)
        return_on_capital == div_if(ebit_g, capital_investido_g)
    IN  IF earnings_yield.raised \/ return_on_capital.raised
        THEN [raised |-> TRUE, value |-> EmptyMap]
        ELSE [raised |-> FALSE,
              value |-> assign(assign(d9,
                            "greenblatt_earnings_yield", earnings_yield.value),
                            "greenblatt_return_on_capital", return_on_capital.value)]

\* extract_financial_data as a function of the document: the record it
\* returns, or the exception it raises
extract_financial_data(doc) ==
    greenblatt(
        assign(statement_indicators(main_indicators(doc, EmptyMap, 1),
                                    extract_table_data(doc, TitleList(DreTitles)),
                                    extract_table_data(doc, TitleList(BalancoTitles))),
               "nome_empresa_completo", nome_empresa_completo(doc)))

\* Documents given to extract_financial_data: a table of indicators, an
\* income-statement section and a balance-sheet section, each in several
\* forms.
Pair(label, text) == Row("", <<label>>, <<Some(text)>>)

PlRows ==
    { <<>>,
      <<Pair("P/L", <<"8", ",", "0", "0">>)>>,
      <<Pair("P/L", <<"8", ",", "0", "0">>), Pair("P/L", <<"9", ",", "0", "0">>)>>,
      <<Row("", <<"P/L">>, <<>>)>>,
      <<Row("", <<"P/L">>, <<None>>)>>,
      <<Row("P/L", <<>>, <<>>)>>,
      <<Row("", <<"P/L", "Cres. Rec (5a)">>, <<>>)>>,
      <<Row("", <<"P/L", "ROE">>, <<Some(<<"8", ",", "0", "0">>), Some(<<"1", "2", ",", "5", "%">>)>>)>> }

EvRows ==
    { <<>>,
      <<Pair("Valor da Firma", <<"0">>)>>,
      <<Pair("Valor da Firma", <<"-">>)>>,
      <<Pair("Valor da Firma", <<"2", ".", "0", "0", "0">>)>> }

DreSections ==
    { <<>> }
    \cup { <<Table(<<Row(DreTitles[1], <<>>, <<>>),
                     Row("", <<"EBIT", "EBIT">>, <<Some(v), Some(<<"7", "5">>)>>)>>)>> :
             v \in { <<"0">>, <<"3", "0", "0">>, <<"-", "3", "0", "0">> } }

AtivoCirculanteRows == { <<>>, <<Pair("Ativo Circulante", <<"1", "0", "0">>)>> }

PassivoCirculanteRows ==
    { <<>>,
      <<Pair("Passivo Circulante", <<"3", "0", "0">>)>>,
      <<Pair("Passivo Circulante", <<"1", "0", "0">>)>> }

ImobilizadoRows ==
    { <<>>,
      <<Pair("Ativo Imobilizado", <<"2", "0", "0">>)>>,
      <<Pair("Imobilizado", <<"2", "0", "0">>)>>,
      <<Pair("Ativo Imobilizado", <<"0">>),
        Pair("Ativo Nao Circulante", <<"2", "0", "0", ",", "5">>)>>,
      <<Pair("Ativo Imobilizado", <<"0">>),
        Pair("Imobilizado", <<"2", "0", "0">>)>>,
      <<Pair("Ativo Imobilizado", <<"0">>),
        Pair("Imobilizado", <<"3", "0", "0">>),
        Pair("Ativo Nao Circulante", <<"2", "0", "0", ",", "5">>)>> }

Documents ==
    { <<Table(pl \o ev)>> \o dre
      \o <<Table(<<Row(BalancoTitles[2], <<>>, <<>>)>> \o ac \o pcirc \o imob)>> :
        pl \in PlRows, ev \in EvRows, dre \in DreSections,
        ac \in AtivoCirculanteRows, pcirc \in PassivoCirculanteRows,
        imob \in ImobilizadoRows }

\* financial_data = self.extract_financial_data(soup, ticker_input)
ExtractFinancialData ==
    /\ extract_pc = "call"
    /\ LET outcome == extract_financial_data(soup)
       IN  /\ financial_data' = outcome.value
           /\ extract_pc' = IF outcome.raised THEN "raise" ELSE "return"
    /\ UNCHANGED <<soup, outside_extract>>

InitExtract ==
    /\ extract_pc = "call"
    /\ soup \in Documents
    /\ financial_data = EmptyMap
    /\ OutsideExtractIdle

NextExtract == ExtractFinancialData

SpecExtract == InitExtract /\ [][NextExtract]_vars

----------------------------------------------------------------------------
(* Properties of extract_financial_data *)

\* the label of the catalog is in no label-class cell of the document
NoLabelCell(label) == label_positions(soup, label) = {}

\* the first label-class cell with the label, and its row
LabelCell(label) == first_label(soup, label)

LabelRow(label) == soup[LabelCell(label)[1]].rows[LabelCell(label)[2]]

\* the cell read as the value cell is the next data cell of the row or,
\* without one, the next cell of the row: it is missing when the label cell
\* is the last cell of its row
ValueCellMissing(label) ==
    /\ LabelCell(label)[3] > Len(LabelRow(label).data_cells)
    /\ LabelCell(label)[3] = Len(LabelRow(label).label_cells)

\* the value cell has no text
ValueCellEmpty(label) ==
    LET i == LabelCell(label)[3]
    IN  \/ i <= Len(LabelRow(label).data_cells)
           /\ LabelRow(label).data_cells[i] = None
        \/ i > Len(LabelRow(label).data_cells)
           /\ i < Len(LabelRow(label).label_cells)
           /\ LabelRow(label).label_cells[i + 1] = ""

(* C17: the record returned by extract_financial_data contains every
   canonical key of main_indicators_mapping, each with a number; a key
   whose label is in no label-class cell, or whose value cell is missing or
   empty, has the value 0.0. *)
C17_EveryKeyPresent ==
    extract_pc # "call" =>
        /\ extract_pc = "return"
        /\ \A k \in 1..Len(main_indicators_mapping) :
               LET label == main_indicators_mapping[k][1]
                   key == main_indicators_mapping[k][2]
               IN  /\ key \in DOMAIN financial_data
                   /\ financial_data[key].m \in Int
                   /\ financial_data[key].e \in Nat
                   /\ NoLabelCell(label) => financial_data[key] = Zero
                   /\ (~NoLabelCell(label)
                       /\ (ValueCellMissing(label) \/ ValueCellEmpty(label)))
                          => financial_data[key] = Zero

\* 'P/L' stands in a label cell with no cell after it and 'Valor da Firma'
\* is nowhere: both keys are there with 0.0
C17_Witness ==
    /\ extract_pc = "return"
    /\ soup[1] = Table(<<Row("", <<"P/L">>, <<>>)>>)
    /\ financial_data["preco_lucro"] = Zero
    /\ financial_data["enterprise_value"] = Zero
    /\ Cardinality(DOMAIN financial_data) >= Len(main_indicators_mapping)

(* C18: in the record returned, greenblatt_nwc_calculado = ativo_circulante
   - passivo_circulante; greenblatt_earnings_yield = ebit_12m /
   enterprise_value when enterprise_value != 0 and 0.0 otherwise;
   greenblatt_return_on_capital = ebit_12m / (nwc +
   ativo_imobilizado_liquido) when that capital is not 0 and 0.0 otherwise;
   no division by zero occurs. *)
C18_Greenblatt ==
    extract_pc # "call" =>
        /\ extract_pc = "return"
        /\ LET ac == financial_data["ativo_circulante"]
               pcirc == financial_data["passivo_circulante"]
               nfa == financial_data["ativo_imobilizado_liquido"]
               ebit == financial_data["ebit_12m"]
               ev == financial_data["enterprise_value"]
               nwc == financial_data["greenblatt_nwc_calculado"]
               ey == financial_data["greenblatt_earnings_yield"]
               roc == financial_data["greenblatt_return_on_capital"]
               \* nwc + nfa is capital / 10^(nwc.e + nfa.e)
               capital == nwc.m * Pow10(nfa.e) + nfa.m * Pow10(nwc.e)
           IN  /\ nwc.m * Pow10(ac.e + pcirc.e)
                      = (ac.m * Pow10(pcirc.e) - pcirc.m * Pow10(ac.e)) * Pow10(nwc.e)
               /\ ey.den > 0
               /\ roc.den > 0
               /\ ev.m # 0 => ey.num * ev.m * Pow10(ebit.e)
                                  = ebit.m * Pow10(ev.e) * ey.den
               /\ ev.m = 0 => ey.num = 0
               /\ capital # 0 => roc.num * capital * Pow10(ebit.e)
                                     = ebit.m * Pow10(nwc.e + nfa.e) * roc.den
               /\ capital = 0 => roc.num = 0

\* ativo_circulante 100, passivo_circulante 300, ativo_imobilizado_liquido
\* 200: the capital is 0 and the return on capital 0.0, while the earnings
\* yield is 300 / 2000
C18_Witness ==
    /\ extract_pc = "return"
    /\ financial_data["ebit_12m"] = [m |-> 300, e |-> 0]
    /\ financial_data["greenblatt_nwc_calculado"] = [m |-> -200, e |-> 0]
    /\ financial_data["ativo_imobilizado_liquido"] = [m |-> 200, e |-> 0]
    /\ financial_data["greenblatt_return_on_capital"] = [num |-> 0, den |-> 1]
    /\ financial_data["greenblatt_earnings_yield"] = [num |-> 3, den |-> 20]

----------------------------------------------------------------------------
(* _prepare_ticker_variants (lines 24-42) *)

LowerCase == <<"a", "b", "c", "d", "e", "f", "g", "h", "i", "j", "k", "l", "m",
               "n", "o", "p", "q", "r", "s", "t", "u", "v", "w", "x", "y", "z">>

UpperCase == <<"A", "B", "C", "D", "E", "F", "G", "H", "I", "J", "K", "L", "M",
               "N", "O", "P", "Q", "R", "S", "T", "U", "V", "W", "X", "Y", "Z">>

\* str.upper()
upper(s) ==
    [i \in 1..Len(s) |->
        IF \E j \in 1..Len(LowerCase) : LowerCase[j] = s[i]
        THEN UpperCase[CHOOSE j \in 1..Len(LowerCase) : LowerCase[j] = s[i]]
        ELSE s[i]]

\* str.endswith(suffix)
endswith(s, suffix) ==
    Len(s) >= Len(suffix)
    /\ SubSeq(s, Len(s) - Len(suffix) + 1, Len(s)) = suffix

DotSA == <<".", "S", "A">>

\* [A-Z]{4}\d{1,2} over the whole of s
four_letters_digits(s) ==
    /\ Len(s) \in {5, 6}
    /\ \A i \in 1..4 : \E j \in 1..Len(UpperCase) : UpperCase[j] = s[i]
    /\ \A i \in 5..Len(s) : s[i] \in Digits

\* line 33: re.match(r"^[A-Z]{4}\d{1,2}$", s); '$' matches at the end of s
\* and also just before a line break that ends s
re_match(s) ==
    \/ four_letters_digits(s)
    \/ /\ s # <<>>
       /\ s[Len(s)] = "\n"
       /\ four_letters_digits(SubSeq(s, 1, Len(s) - 1))

prepare_ticker_variants(original_ticker) ==
    LET base_ticker == upper(strip(original_ticker))
        fundamentus_ticker == replace(base_ticker, DotSA, <<>>)
        finnhub_ticker == fundamentus_ticker
        yfinance_ticker ==
            IF ~endswith(fundamentus_ticker, DotSA) /\ re_match(fundamentus_ticker)
            THEN fundamentus_ticker \o DotSA
            ELSE fundamentus_ticker
    IN  [original |-> original_ticker,
         base |-> base_ticker,
         yfinance |-> yfinance_ticker,
         fundamentus |-> fundamentus_ticker,
         finnhub |-> finnhub_ticker]

\* Inputs: up to MaxParts pieces, one after the other
MaxParts == 4

TickerParts ==
    { <<"P", "E", "T", "R">>, <<"p", "e", "t", "r">>, <<"4">>, <<"1", "1">>,
      <<".", "S", "A">>, <<".", "s", "a">>, <<" ">>, <<"\n">>, <<"X">>, <<".">> }

RECURSIVE TickerTexts(_)
TickerTexts(n) ==
    IF n = 0 THEN {<<>>}
    ELSE LET shorter == TickerTexts(n - 1)
         IN  shorter \cup {s \o part : s \in shorter, part \in TickerParts}

\* line 374: tickers = self._prepare_ticker_variants(ticker_input)
PrepareTickerVariants ==
    /\ ticker_pc = "call"
    /\ tickers' = prepare_ticker_variants(ticker_input)
    /\ ticker_pc' = "return"
    /\ UNCHANGED <<ticker_input, outside_ticker>>

InitTicker ==
    /\ ticker_pc = "call"
    /\ ticker_input \in TickerTexts(MaxParts)
    /\ tickers = <<>>
    /\ OutsideTickerIdle

NextTicker == PrepareTickerVariants

SpecTicker == InitTicker /\ [][NextTicker]_vars

\* line 402: the 'ticker' of the result of analyze_stock
result_ticker == tickers.base

----------------------------------------------------------------------------
(* Properties of _prepare_ticker_variants *)

\* the input stripped of whitespace, uppercased and with the market suffix
\* '.SA' removed
SuffixFree(t) ==
    LET clean == upper(strip(t))
    IN  IF endswith(clean, DotSA) THEN SubSeq(clean, 1, Len(clean) - 3)
        ELSE clean

(* C19: the 'base' of the variants, which analyze_stock reports as the
   'ticker' of its result, is the input stripped of whitespace, uppercased
   and with the market suffix '.SA' removed: for every input ending in
   '.SA' or '.sa', 'base' carries no suffix and equals 'fundamentus'. *)
C19_BaseWithoutSuffix ==
    ticker_pc = "return" =>
        /\ tickers.base = SuffixFree(ticker_input)
        /\ result_ticker = tickers.base
        /\ (endswith(ticker_input, DotSA) \/ endswith(ticker_input, <<".", "s", "a">>))
               => /\ ~endswith(tickers.base, DotSA)
                  /\ tickers.base = tickers.fundamentus

(* C20: 'yfinance' is the suffix-free form plus '.SA' exactly when the
   suffix-free form is four letters A-Z followed by one or two digits, and
   the suffix-free form unchanged otherwise; 'fundamentus' and 'finnhub'
   are always the suffix-free form. *)
C20_YfinanceVariant ==
    ticker_pc = "return" =>
        LET sf == SuffixFree(ticker_input)
            pattern == /\ Len(sf) \in {5, 6}
                       /\ \A i \in 1..4 : \E j \in 1..26 : UpperCase[j] = sf[i]
                       /\ \A i \in 5..Len(sf) : sf[i] \in Digits
        IN  /\ tickers.yfinance = IF pattern THEN sf \o DotSA ELSE sf
            /\ tickers.fundamentus = sf
            /\ tickers.finnhub = sf


----------------------------------------------------------------------------
(* The six quality indicators of generate_investment_analysis *)

\* The increment the table gives for each indicator (values in hundredths).
TabledRoe(x) == IF x > 20 THEN 2 ELSE IF x > 10 THEN 1 ELSE IF x < 0 THEN -2 ELSE 0

TabledRoic(x) == IF x > 15 THEN 2 ELSE IF x > 10 THEN 1 ELSE IF x < 0 THEN -2 ELSE 0

TabledPrecoLucro(x) == IF 0 < x /\ x < 1000 THEN 1 ELSE IF x < 0 THEN -2 ELSE 0

TabledDivida(x) ==
    IF 0 <= x /\ x < 50 THEN 1 ELSE IF x > 100 THEN -1 ELSE IF x < 0 THEN -2 ELSE 0

TabledLiquidez(x) == IF x > 200 THEN 1 ELSE IF 0 <= x /\ x < 100 THEN -1 ELSE 0

TabledCrescimento(x) == IF x > 10 THEN 1 ELSE IF x < 0 THEN -1 ELSE 0

\* the six tabled increments of record d, in the order of the table
TabledIncrements(d) ==
    << TabledRoe(d.roe), TabledRoic(d.roic), TabledPrecoLucro(d.preco_lucro),
       TabledDivida(d.divida_bruta_patrimonio),
       TabledLiquidez(d.liquidez_corrente),
       TabledCrescimento(d.cres_receita_5a) >>

\* how many of the increments are positive, how many negative
Positive(incs) == Cardinality({ i \in 1..Len(incs) : incs[i] > 0 })

Negative(incs) == Cardinality({ i \in 1..Len(incs) : incs[i] < 0 })

(* C25: each of the six quality indicators adds its tabled increment to the
   score whatever the other five are, every positive increment appends one
   strength, every negative one appends one weakness, and an indicator
   without increment appends nothing.  The valuation step comes first with
   its own increment and notes, and the sum is clamped to [-10, 10]. *)
C25_TabledIncrements ==
    pc = "done" =>
        LET incs == TabledIncrements(data)
            v == valuation_step(fair_prices.average, data.cotacao_atual)
        IN  /\ analysis.score = Max(Min(v.inc + SumSeq(incs), 10), -10)
            /\ Len(analysis.strengths) = Len(v.strengths) + Positive(incs)
            /\ Len(analysis.weaknesses) = Len(v.weaknesses) + Negative(incs)

\* all six indicators contribute, three up and three down
C25_Witness ==
    /\ pc = "done"
    /\ data.roe = 21 /\ data.roic = 16 /\ data.preco_lucro = 999
    /\ data.divida_bruta_patrimonio = 101 /\ data.liquidez_corrente = 99
    /\ data.cres_receita_5a = -1
    /\ fair_prices.average = 1000
    /\ analysis.score = 2
    /\ Len(analysis.strengths) = 4 /\ Len(analysis.weaknesses) = 3


\* the note of the valuation step that reports the margin
MarginNote == "Potencial de valorizacao"

\* the note of the valuation step for an inconclusive average
InconclusiveNote == "Media dos precos justos nao e conclusiva"

\* note occurs in the list notes_list
Noted(notes_list, note) == \E i \in 1..Len(notes_list) : notes_list[i] = note

\* the score and the number of notes are those of the six quality
\* indicators plus extra_weaknesses weaknesses
OnlyQuality(extra_weaknesses) ==
    LET incs == TabledIncrements(data)
    IN  /\ analysis.score = Max(Min(SumSeq(incs), 10), -10)
        /\ Len(analysis.strengths) = Positive(incs)
        /\ Len(analysis.weaknesses) = extra_weaknesses + Negative(incs)

AbnormalPrice == data.cotacao_atual <= 0 /\ fair_prices.average > 0

InconclusiveAverage == fair_prices.average <= 0 /\ data.cotacao_atual > 0

(* C26: with a price <= 0 and a positive average the recommendation is
   'ANALISAR (Cotacao Anormal)' and the valuation step adds nothing to the
   score or to the notes; with an average <= 0 and a positive price the
   recommendation is 'CAUTELA', the valuation step appends one weakness
   (the first of the list) and adds nothing to the score; in neither case
   is there a margin note. *)
C26_AbnormalInputs ==
    pc = "done" =>
        /\ AbnormalPrice =>
              /\ analysis.recommendation = "ANALISAR (Cotacao Anormal)"
              /\ OnlyQuality(0)
              /\ ~Noted(analysis.weaknesses, InconclusiveNote)
              /\ ~Noted(analysis.strengths, MarginNote)
        /\ InconclusiveAverage =>
              /\ analysis.recommendation = "CAUTELA"
              /\ OnlyQuality(1)
              /\ analysis.weaknesses[1] = InconclusiveNote
              /\ ~Noted(analysis.strengths, MarginNote)

\* an abnormal price has been analysed, with quality notes of its own
C26_Witness ==
    /\ pc = "done"
    /\ AbnormalPrice
    /\ analysis.recommendation = "ANALISAR (Cotacao Anormal)"
    /\ Len(analysis.strengths) > 0


----------------------------------------------------------------------------
(* The average of calculate_fair_price *)

\* the four model values of a fair-price set
ModelValues(fp) == {fp.graham, fp.ddm, fp.pe_adjusted, fp.pvp_adjusted}

PositiveValues(fp) == { v \in ModelValues(fp) : v > 0 }

Smallest(S) == CHOOSE v \in S : \A w \in S : v <= w

Largest(S) == CHOOSE v \in S : \A w \in S : v >= w

(* C30: the average is positive exactly when one of graham, ddm,
   pe_adjusted, pvp_adjusted is positive, and a positive average lies
   between the smallest and the largest of the positive model values;
   model values that are negative or zero have no part in it. *)
C30_AverageOfPositives ==
    pc = "priced" =>
        /\ fair_prices.average > 0 <=> PositiveValues(fair_prices) # {}
        /\ fair_prices.average > 0 =>
              /\ Smallest(PositiveValues(fair_prices)) <= fair_prices.average
              /\ fair_prices.average <= Largest(PositiveValues(fair_prices))

\* a negative model value beside two different positive ones, the average
\* strictly between the positive ones
C30_Witness ==
    /\ pc = "priced"
    /\ \E v \in ModelValues(fair_prices) : v < 0
    /\ Cardinality(PositiveValues(fair_prices)) >= 2
    /\ Smallest(PositiveValues(fair_prices)) < fair_prices.average
    /\ fair_prices.average < Largest(PositiveValues(fair_prices))


----------------------------------------------------------------------------
(* The record of a page from which nothing was extracted *)

\* every indicator 0.0
ZeroRecord == Record(0, 0, 0, 0, 0, 0, 0, 0, 0, 0)

(* C29: for the record whose indicators are all 0.0 the fair-price set is
   all 0.0 and the analysis is 'NEUTRO' with score 0, yet with exactly one
   strength, the low-debt note of divida_bruta_patrimonio = 0, and exactly
   one weakness, the low-liquidity note of liquidez_corrente = 0. *)
C29_NothingExtracted ==
    data = ZeroRecord =>
        /\ pc \in {"priced", "done"} => fair_prices = NoPrices
        /\ pc = "done" =>
              /\ analysis.recommendation = "NEUTRO"
              /\ analysis.score = 0
              /\ analysis.strengths = <<"Endividamento Baixo">>
              /\ analysis.weaknesses = <<"Liquidez Corrente Baixa">>

\* the all-zero record has gone through both steps
C29_Witness ==
    /\ pc = "done"
    /\ data = ZeroRecord
    /\ Len(analysis.strengths) = 1
    /\ Len(analysis.weaknesses) = 1


----------------------------------------------------------------------------
(* The fixed-assets fallback of extract_financial_data *)

\* what the balance-sheet table of the document holds for a label, 0.0
\* for a label it does not hold
BalanceValue(label) ==
    get(extract_table_data(soup, TitleList(BalancoTitles)), label, Zero)

\* the labels of the fallback chain, in order
FixedAssetLabels == <<"Ativo Imobilizado", "Imobilizado", "Ativo Nao Circulante">>

\* the value of the first label of the chain held with a non-zero value,
\* 0.0 when there is none
FirstNonZero ==
    IF \A i \in 1..Len(FixedAssetLabels) : BalanceValue(FixedAssetLabels[i]) = Zero
    THEN Zero
    ELSE BalanceValue(FixedAssetLabels[
             CHOOSE i \in 1..Len(FixedAssetLabels) :
                 /\ BalanceValue(FixedAssetLabels[i]) # Zero
                 /\ \A j \in 1..(i - 1) : BalanceValue(FixedAssetLabels[j]) = Zero])

(* C24: ativo_imobilizado_liquido is the value of the first of 'Ativo
   Imobilizado', 'Imobilizado', 'Ativo Nao Circulante' that the balance
   sheet holds with a non-zero value, and 0.0 when none of them does. *)
C24_FirstNonZeroLabel ==
    extract_pc = "return" =>
        financial_data["ativo_imobilizado_liquido"] = FirstNonZero


----------------------------------------------------------------------------
(* get_company_news.  An item a provider returns is "ok" (it has a title    *)
(* and a link), "untitled" (one of them is missing) or "broken" (it is not  *)
(* a mapping: reading it raises); its datetime is None or a number.  The    *)
(* search terms handed to the providers do not influence the control flow   *)
(* and are left out.                                                        *)

NewsItem(kind, datetime) == [kind |-> kind, datetime |-> datetime]

\* the entry appended to news_list for an item
news_entry(item, source) == [source |-> source, datetime |-> item.datetime]

\* items[:count], count >= 0
take(items, count) == SubSeq(items, 1, Min(count, Len(items)))

\* the outcome of a try block: whether its except clause ran, and news_list
\* as the block leaves it
Block(raised, list) == [raised |-> raised, value |-> list]

\* for item in items: if it has title and link: news_list.append(...); an
\* item that raises ends the block, what was appended before it stays
RECURSIVE append_all(_, _, _)
append_all(list, items, source) ==
    IF items = <<>> THEN Block(FALSE, list)
    ELSE IF Head(items).kind = "broken" THEN Block(TRUE, list)
    ELSE append_all(IF Head(items).kind = "ok"
                    THEN Append(list, news_entry(Head(items), source))
                    ELSE list,
                    Tail(items), source)

\* Faulty variant of append_until: the loop never breaks.
append_until_no_break(list, items, count, source) ==
    append_all(list, items, source)

\* the same loop with 'if len(news_list) >= count: break' at its head
RECURSIVE append_until(_, _, _, _)
append_until(list, items, count, source) ==
    IF items = <<>> \/ Len(list) >= count THEN Block(FALSE, list)
    ELSE IF Head(items).kind = "broken" THEN Block(TRUE, list)
    ELSE append_until(IF Head(items).kind = "ok"
                      THEN Append(list, news_entry(Head(items), source))
                      ELSE list,
                      Tail(items), count, source)

\* lines 487-505: the Finnhub block; outcome is what company_news does
finnhub_news(list, outcome, count) ==
    IF outcome.raised THEN Block(TRUE, list)
    ELSE append_all(list, take(outcome.value, count), "Finnhub")

\* lines 507-527: the yfinance block; outcome is what Ticker(...).news does
yfinance_news(list, outcome, count) ==
    IF outcome.raised THEN Block(TRUE, list)
    ELSE append_until(list, outcome.value, count, "Yahoo Finance")

\* lines 529-560: the Google News block; outcome is what search does
google_news(list, outcome, count) ==
    IF outcome.raised THEN Block(TRUE, list)
    ELSE append_until(list, outcome.value, count, "Google News")

\* sorted(..., key=datetime, reverse=True) of the entries list[1..n]: a
\* stable sort, entries with equal datetimes keep their order
RECURSIVE sorted_desc(_, _)
sorted_desc(list, n) ==
    IF n = 0 THEN <<>>
    ELSE LET before == sorted_desc(list, n - 1)
             x == list[n]
             k == Cardinality({ j \in 1..Len(before) :
                                  before[j].datetime[1] >= x.datetime[1] })
         IN  SubSeq(before, 1, k) \o <<x>> \o SubSeq(before, k + 1, Len(before))

\* the entries of list that satisfy / do not satisfy 'has a numeric datetime'
RECURSIVE dated(_, _)
dated(list, wanted) ==
    IF list = <<>> THEN <<>>
    ELSE IF (Head(list).datetime # None) = wanted
         THEN <<Head(list)>> \o dated(Tail(list), wanted)
         ELSE dated(Tail(list), wanted)

\* lines 565-575: the dated entries, newest first, then the undated ones
news_list_sorted(list) ==
    sorted_desc(dated(list, TRUE), Len(dated(list, TRUE))) \o dated(list, FALSE)


\* What a provider may do when queried: raise, or return up to MaxItems
\* items (an empty answer stands for None and for an empty list alike).
MaxItems == 2

\* the largest count asked for
MaxCount == 3

ItemSorts ==
    { NewsItem("ok", dt) : dt \in {None, Some(1), Some(2)} }
    \cup { NewsItem("untitled", None), NewsItem("broken", None) }

RECURSIVE ItemLists(_)
ItemLists(n) ==
    IF n = 0 THEN { <<>> }
    ELSE ItemLists(n - 1)
         \cup { Append(l, x) : l \in { m \in ItemLists(n - 1) : Len(m) = n - 1 },
                               x \in ItemSorts }

ProviderOutcomes == { Raise } \cup { Return(l) : l \in ItemLists(MaxItems) }

\* the errors logged after a block
logged(errors, block, source) ==
    IF block.raised THEN Append(errors, source) ELSE errors

\* lines 486-505: 1. Finnhub, queried when a client is configured
QueryFinnhub ==
    /\ news_pc = "finnhub"
    /\ IF finnhub_client # None
       THEN \E outcome \in ProviderOutcomes :
               LET block == finnhub_news(news_list, outcome, news_count)
               IN  /\ sources_tried' = Append(sources_tried, "Finnhub")
                   /\ news_list' = block.value
                   /\ news_errors' = logged(news_errors, block, "Finnhub")
       ELSE UNCHANGED <<sources_tried, news_list, news_errors>>
    /\ news_pc' = "yfinance"
    /\ UNCHANGED <<news_count, finnhub_client, call_vars, core_vars>>

\* lines 507-527: 2. yfinance, queried when news_list is short of count
QueryYfinance ==
    /\ news_pc = "yfinance"
    /\ IF Len(news_list) < news_count
       THEN \E outcome \in ProviderOutcomes :
               LET block == yfinance_news(news_list, outcome, news_count)
               IN  /\ sources_tried' = Append(sources_tried, "yfinance")
                   /\ news_list' = block.value
                   /\ news_errors' = logged(news_errors, block, "yfinance")
       ELSE UNCHANGED <<sources_tried, news_list, news_errors>>
    /\ news_pc' = "google"
    /\ UNCHANGED <<news_count, finnhub_client, call_vars, core_vars>>

\* lines 529-560: 3. Google News, queried when news_list is short of count
QueryGoogleNews ==
    /\ news_pc = "google"
    /\ IF Len(news_list) < news_count
       THEN \E outcome \in ProviderOutcomes :
               LET block == google_news(news_list, outcome, news_count)
               IN  /\ sources_tried' = Append(sources_tried, "GoogleNews")
                   /\ news_list' = block.value
                   /\ news_errors' = logged(news_errors, block, "GoogleNews")
       ELSE UNCHANGED <<sources_tried, news_list, news_errors>>
    /\ news_pc' = "sort"
    /\ UNCHANGED <<news_count, finnhub_client, call_vars, core_vars>>

\* lines 565-577: the sort, and return news_list[:count]
ReturnNews ==
    /\ news_pc = "sort"
    /\ news_list' = take(news_list_sorted(news_list), news_count)
    /\ news_pc' = "return"
    /\ UNCHANGED <<news_count, sources_tried, news_errors, finnhub_client,
                   call_vars, core_vars>>

\* get_company_news called with any count up to MaxCount, on an analyzer
\* with or without a Finnhub client
InitNews ==
    /\ news_pc = "finnhub"
    /\ news_count \in 0..MaxCount
    /\ finnhub_client \in {None, Some("client")}
    /\ news_list = <<>>
    /\ sources_tried = <<>>
    /\ news_errors = <<>>
    /\ CallsIdle
    /\ CoreIdle

NextNews == QueryFinnhub \/ QueryYfinance \/ QueryGoogleNews \/ ReturnNews

SpecNews == InitNews /\ [][NextNews]_vars


\* the providers in their order of priority, by the name sources_tried
\* gives them
ProviderOrder == <<"Finnhub", "yfinance", "GoogleNews">>

Priority(source) == CHOOSE k \in 1..Len(ProviderOrder) : ProviderOrder[k] = source

\* the providers tried so far were tried in the order of priority, each once
TriedInOrder ==
    \A i, j \in 1..Len(sources_tried) :
        i < j => Priority(sources_tried[i]) < Priority(sources_tried[j])

\* the step about to be taken queries source exactly when wanted holds
QueriesExactlyWhen(source, wanted) ==
    IF wanted THEN sources_tried' = Append(sources_tried, source)
    ELSE sources_tried' = sources_tried /\ news_list' = news_list

\* every step of get_company_news queries the provider whose turn it is
\* exactly when it is due, whatever the providers before it did
QueriesWhenDue ==
    /\ news_pc = "finnhub" => QueriesExactlyWhen("Finnhub", finnhub_client # None)
    /\ news_pc = "yfinance" =>
           QueriesExactlyWhen("yfinance", Len(news_list) < news_count)
    /\ news_pc = "google" =>
           QueriesExactlyWhen("GoogleNews", Len(news_list) < news_count)
    /\ news_pc = "sort" => sources_tried' = sources_tried

(* C28: get_company_news never holds more than count items, so it returns
   at most count; it tries Finnhub (when a client is configured), then
   yfinance, then Google News, a later provider exactly when fewer than
   count items have been collected so far, be it after an exception of an
   earlier provider or not. *)
C28_OrderedFallback ==
    /\ [](Len(news_list) <= news_count)
    /\ []TriedInOrder
    /\ [][QueriesWhenDue]_vars

\* Finnhub raised after one item, yfinance raised, Google News filled the
\* list up to count
C28_Witness ==
    /\ news_pc = "return"
    /\ news_count = 3
    /\ sources_tried = ProviderOrder
    /\ news_errors = <<"Finnhub", "yfinance">>
    /\ Len(news_list) = 3
    /\ news_list[3].source = "Finnhub"


----------------------------------------------------------------------------
(* analyze_stock.  The coroutine is suspended in session.get and in          *)
(* response.text; what it does between two suspensions is one step.  The     *)
(* page that response.text delivers is carried as the document that         *)
(* BeautifulSoup builds from it.                                             *)

\* soup.find('span', class_='txt', string=string): there is such a span
find_span(doc, string) ==
    \E e \in 1..Len(doc) :
        \/ doc[e].name = "span" /\ doc[e].string = string
        \/ \E r \in 1..Len(doc[e].rows) :
              LET row == doc[e].rows[r]
              IN  \/ row.nivel2 = string
                  \/ \E i \in 1..Len(row.label_cells) : row.label_cells[i] = string
                  \/ \E i \in 1..Len(row.data_cells) :
                        row.data_cells[i] = Some(text_of(string))

\* the float v / 10^e carried as a whole number of hundredths; the indicators
\* of Pages are whole hundredths, so nothing is lost on them
to_fixed(dec) == RoundDiv(dec.m * Scale, Pow10(dec.e))

\* the indicators calculate_fair_price and generate_investment_analysis
\* read from financial_data, each with data.get(key, 0.0)
indicators(map) ==
    [key \in {"cotacao_atual", "preco_lucro", "lucro_por_acao",
              "valor_patrimonial_acao", "roe", "roic", "liquidez_corrente",
              "divida_bruta_patrimonio", "cres_receita_5a", "dividend_yield"} |->
        to_fixed(get(map, key, Zero))]

\* line 370: analysis['summary'], its ticker, company name, recommendation
\* and score
summary(ticker_input_original, map, rec, score) ==
    <<upper(ticker_input_original),
      get(map, "nome_empresa_completo", upper(ticker_input_original)),
      rec, score>>

\* line 376
source_url(ticker_fundamentus) ==
    <<"https://www.fundamentus.com.br/detalhes.php?papel=">> \o ticker_fundamentus

\* Faulty variant of failure: the ticker is left out of the result.
failure_no_ticker(error, original, tks) ==
    [error |-> error, ticker_input_original |-> original]

\* the result of the except clauses and of the missing marker
failure(error, original, tks) ==
    [error |-> error, ticker_input_original |-> original, ticker |-> tks.base]

\* lines 400-410: the result of a completed analysis
success(original, tks, map, prices, analysis_summary, clock) ==
    [ticker |-> tks.base,
     ticker_input_original |-> original,
     ticker_yfinance |-> tks.yfinance,
     nome_empresa |-> get(map, "nome_empresa_completo", tks.base),
     data_extracao_utc |-> clock,
     financial_data |-> map,
     fair_prices |-> prices,
     analysis |-> analysis_summary,
     source_url |-> source_url(tks.fundamentus)]

\* lines 414-417, 418-421, 422-425: the error texts
http_error(status_text, message) ==
    <<"Erro HTTP ", status_text, " ao buscar dados do Fundamentus: ", message>>

timeout_error == <<"Timeout ao buscar dados do Fundamentus.">>

unexpected_error(text) ==
    <<"Erro inesperado durante a analise do Fundamentus: ", text>>

\* lines 389-390
invalid_page_error ==
    <<"Ticker invalido ou pagina nao encontrada no Fundamentus.">>


\* what a step hands back: the value returned and the calls made, in order
Done(value, calls) == [value |-> value, calls |-> calls]

\* What the network may do.
Response(status, status_text, message) ==
    [kind |-> "response", status |-> status, status_text |-> status_text,
     message |-> message]

TimeoutError == [NoResponse EXCEPT !.kind = "timeout"]

OtherError(message) == [NoResponse EXCEPT !.kind = "error", !.message = message]

GetOutcomes ==
    { Response(200, "200", "OK"), Response(404, "404", "Not Found"),
      TimeoutError, OtherError("Cannot connect to host") }

Page(doc) == [kind |-> "page", doc |-> doc, message |-> ""]

PapelRow == Pair("Papel", <<"P", "E", "T", "R", "4">>)

\* the indicator rows of a page whose record is the end-to-end record, with
\* the given earnings per share
IndicatorRows(lpa) ==
    << Pair("Cotacao", <<"1", "0", ",", "0", "0">>),
       Pair("P/L", <<"8", ",", "0", "0">>),
       Pair("LPA", lpa),
       Pair("VPA", <<"1", "2", ",", "0", "0">>),
       Pair("ROE", <<"1", "8", ",", "0", "%">>),
       Pair("Liquidez Corr", <<"2", ",", "0", "0">>),
       Pair("Div Br/ Patrim", <<"0", ",", "3", "0">>),
       Pair("Empresa", <<"P", "E", "T", "R", "O", "B", "R", "A", "S">>) >>

\* pages: empty, a full page, a full page without the marker, a full page
\* of a company with losses
Pages ==
    { <<>>,
      <<Table(<<PapelRow>> \o IndicatorRows(<<"1", ",", "5", "0">>))>>,
      <<Table(IndicatorRows(<<"1", ",", "5", "0">>))>>,
      <<Table(<<PapelRow>> \o IndicatorRows(<<"-", "1", ",", "5", "0">>))>> }

TextOutcomes ==
    { Page(doc) : doc \in Pages }
    \cup { [NoContent EXCEPT !.kind = "timeout"],
           [NoContent EXCEPT !.kind = "error",
                             !.message = "Response payload is not completed"] }

TickerInputs ==
    { <<"P", "E", "T", "R", "4">>, <<"v", "a", "l", "e", "3", ".", "s", "a">> }

\* line 392: what extract_financial_data returns or raises on each page,
\* computed once
Extracted == [doc \in Pages |-> extract_financial_data(doc)]

\* lines 397-411: generate_investment_analysis, then the result
with_prices(original, tks, map, prices, clock) ==
    LET a == generate_investment_analysis(indicators(map), prices)
    IN  success(original, tks, map, prices,
                [a EXCEPT !.summary = summary(original, map, a.recommendation, a.score)],
                clock)

\* lines 392-411: what follows extract_financial_data; an exception it
\* raised goes to 'except Exception'
after_extraction(original, tks, outcome, clock) ==
    IF outcome.raised
    THEN Done(failure(unexpected_error("float division by zero"), original, tks),
              <<"extract_financial_data">>)
    ELSE Done(with_prices(original, tks, outcome.value,
                          calculate_fair_price(indicators(outcome.value)), clock),
              <<"extract_financial_data", "calculate_fair_price",
                "generate_investment_analysis">>)

\* prefix \o d.calls, with d's value
preceded(prefix, d) == Done(d.value, prefix \o d.calls)

\* Faulty variant of page_result: the page is analysed before the marker is
\* looked for.
page_result_extract_first(original, tks, doc, clock) ==
    IF find_span(doc, "Papel")
    THEN preceded(<<"soup.find">>,
                  after_extraction(original, tks, Extracted[doc], clock))
    ELSE Done(failure(invalid_page_error, original, tks),
              after_extraction(original, tks, Extracted[doc], clock).calls
              \o <<"soup.find">>)

\* lines 385-411: the page has arrived
page_result(original, tks, doc, clock) ==
    IF find_span(doc, "Papel")
    THEN preceded(<<"soup.find">>,
                  after_extraction(original, tks, Extracted[doc], clock))
    ELSE Done(failure(invalid_page_error, original, tks), <<"soup.find">>)

\* lines 413-425: the except clause for what session.get or response.text
\* raised
except_clause(original, tks, raised) ==
    failure(CASE raised.kind = "response" ->
                    http_error(raised.status_text, raised.message)
              [] raised.kind = "timeout" -> timeout_error
              [] OTHER -> unexpected_error(raised.message),
            original, tks)

\* response.raise_for_status() raises
raise_for_status(response) == response.status >= 400

\* Faulty variant of local: the value is kept in one place for all
\* invocations.
shared(variable, i) == variable[1]

\* the local variable of invocation i
local(variable, i) == variable[i]


\* the last reading of the clock
MaxClock == 1

\* an invocation other than i is suspended in session.get or response.text
Suspended(i) ==
    \E j \in Calls \ {i} : call_pc[j] \in {"get", "text"}

\* lines 374-381: analyze_stock is called and suspends in session.get
AnalyzeStock(i) ==
    /\ call_pc[i] = "idle"
    /\ \E t \in TickerInputs :
          /\ call_ticker_input' = [call_ticker_input EXCEPT ![i] = t]
          /\ call_tickers' = [call_tickers EXCEPT ![i] = prepare_ticker_variants(t)]
    /\ call_trace' = [call_trace EXCEPT ![i] = <<"session.get">>]
    /\ call_pc' = [call_pc EXCEPT ![i] = "get"]
    /\ UNCHANGED <<call_response, call_content, call_result, calls_overlapped, now,
                   finnhub_client, news_vars, core_vars>>

\* lines 381-383: session.get completes; the status is checked and the
\* coroutine suspends in response.text, or an except clause returns
GetResponse(i) ==
    /\ call_pc[i] = "get"
    /\ \E response \in GetOutcomes :
          /\ call_response' = [call_response EXCEPT ![i] = response]
          /\ IF response.kind = "response" /\ ~raise_for_status(response)
             THEN /\ call_pc' = [call_pc EXCEPT ![i] = "text"]
                  /\ call_trace' = [call_trace EXCEPT ![i] = Append(@, "response.text")]
                  /\ UNCHANGED <<call_result, calls_overlapped>>
             ELSE /\ call_pc' = [call_pc EXCEPT ![i] = "returned"]
                  /\ call_result' =
                        [call_result EXCEPT ![i] =
                            except_clause(local(call_ticker_input, i),
                                          local(call_tickers, i), response)]
                  /\ calls_overlapped' = (calls_overlapped \/ Suspended(i))
                  /\ UNCHANGED call_trace
    /\ UNCHANGED <<call_ticker_input, call_tickers, call_content, now,
                   finnhub_client, news_vars, core_vars>>

\* lines 383-425: response.text completes; the rest of analyze_stock runs
\* without suspension up to its return
ReadText(i) ==
    /\ call_pc[i] = "text"
    /\ \E html_content \in TextOutcomes :
          LET d == IF html_content.kind = "page"
                   THEN page_result(local(call_ticker_input, i),
                                    local(call_tickers, i), html_content.doc, now)
                   ELSE Done(except_clause(local(call_ticker_input, i),
                                           local(call_tickers, i), html_content),
                             <<>>)
          IN  /\ call_content' = [call_content EXCEPT ![i] = html_content]
              /\ call_result' = [call_result EXCEPT ![i] = d.value]
              /\ call_trace' = [call_trace EXCEPT ![i] = @ \o d.calls]
    /\ call_pc' = [call_pc EXCEPT ![i] = "returned"]
    /\ calls_overlapped' = (calls_overlapped \/ Suspended(i))
    /\ UNCHANGED <<call_ticker_input, call_tickers, call_response, now,
                   finnhub_client, news_vars, core_vars>>

\* time passes
Tick ==
    /\ now < MaxClock
    /\ now' = now + 1
    /\ UNCHANGED <<call_pc, call_ticker_input, call_tickers, call_response,
                   call_content, call_trace, call_result, calls_overlapped,
                   finnhub_client, news_vars, core_vars>>

\* an analyzer, with or without a Finnhub client, on which analyze_stock is
\* called up to MaxCalls times, the calls in progress together or one
\* after the other
InitAnalyze ==
    /\ finnhub_client \in {None, Some("client")}
    /\ CallsIdle
    /\ NewsIdle
    /\ CoreIdle

NextAnalyze ==
    \/ \E i \in Calls : AnalyzeStock(i)
    \/ \E i \in Calls : GetResponse(i)
    \/ \E i \in Calls : ReadText(i)
    \/ Tick

SpecAnalyze == InitAnalyze /\ [][NextAnalyze]_vars


----------------------------------------------------------------------------
(* C21: the two shapes of an analyze_stock result.                         *)

ResultKeys == {"financial_data", "fair_prices", "analysis"}

FailureShape(r) ==
    /\ {"error", "ticker", "ticker_input_original"} \subseteq DOMAIN r
    /\ DOMAIN r \cap ResultKeys = {}

SuccessShape(r) ==
    /\ ResultKeys \subseteq DOMAIN r
    /\ "error" \notin DOMAIN r

\* the fetch of invocation i ended in an HTTP error status, a timeout or
\* another exception, in session.get or in response.text
FetchFailed(i) ==
    \/ call_response[i].kind \in {"timeout", "error"}
    \/ call_response[i].kind = "response" /\ raise_for_status(call_response[i])
    \/ call_content[i].kind \in {"timeout", "error"}

\* the page of invocation i arrived without the 'Papel' marker
MarkerMissing(i) ==
    call_content[i].kind = "page" /\ ~find_span(call_content[i].doc, "Papel")

\* C21: every analyze_stock call that has returned, whatever its fetch
\* outcome, returned exactly one of two shapes: a failure with 'error',
\* 'ticker' and 'ticker_input_original' and none of 'financial_data',
\* 'fair_prices', 'analysis', or a success with those three and no 'error';
\* a failed fetch and a missing marker give the failure.
C21_TwoShapes ==
    \A i \in Calls :
        call_pc[i] = "returned" =>
            /\ FailureShape(call_result[i]) # SuccessShape(call_result[i])
            /\ FetchFailed(i) \/ MarkerMissing(i) => FailureShape(call_result[i])

\* one call has returned a failure after an HTTP error status, the other a
\* success
C21_Witness ==
    \E i, j \in Calls :
        /\ call_pc[i] = "returned" /\ call_pc[j] = "returned"
        /\ call_response[i].kind = "response" /\ raise_for_status(call_response[i])
        /\ FailureShape(call_result[i])
        /\ SuccessShape(call_result[j])


----------------------------------------------------------------------------
(* C22: the pipeline run twice on the same document.                       *)

\* invocation i ran extract_financial_data, calculate_fair_price and
\* generate_investment_analysis to the end
Analysed(i) ==
    call_pc[i] = "returned" /\ "analysis" \in DOMAIN call_result[i]

\* the parts of the analysis that do not name the ticker
Verdict(a) == <<a.recommendation, a.risk_level, a.score, a.strengths, a.weaknesses>>

\* C22: two runs of extract_financial_data, calculate_fair_price and
\* generate_investment_analysis on the same document give the same
\* financial record, the same fair prices and the same recommendation (with
\* the same score, risk level, strengths and weaknesses), whichever run came
\* first and whatever was analysed before; on the same ticker too, the
\* whole analysis is the same.
C22_SameDocumentSameOutput ==
    \A i, j \in Calls :
        Analysed(i) /\ Analysed(j) /\ call_content[i].doc = call_content[j].doc =>
            /\ call_result[i].financial_data = call_result[j].financial_data
            /\ call_result[i].fair_prices = call_result[j].fair_prices
            /\ Verdict(call_result[i].analysis) = Verdict(call_result[j].analysis)
            /\ call_ticker_input[i] = call_ticker_input[j] =>
                  call_result[i].analysis = call_result[j].analysis

\* the same page with indicators has been analysed twice for the same
\* ticker, at two readings of the clock, and strengths were found
C22_Witness ==
    \E i, j \in Calls :
        /\ i # j /\ Analysed(i) /\ Analysed(j)
        /\ call_content[i].doc = call_content[j].doc
        /\ call_ticker_input[i] = call_ticker_input[j]
        /\ call_result[i].data_extracao_utc # call_result[j].data_extracao_utc
        /\ call_result[i].analysis.strengths # <<>>
        /\ call_result[i].fair_prices.average > 0


----------------------------------------------------------------------------
(* C23: invocations in progress together on one analyzer.                  *)

\* what analyze_stock returns when it runs alone: a function of its ticker,
\* of what session.get and response.text gave it, and of the clock it read
Alone(t, response, html_content, clock) ==
    IF response.kind = "response" /\ ~raise_for_status(response)
    THEN IF html_content.kind = "page"
         THEN page_result(t, prepare_ticker_variants(t), html_content.doc, clock).value
         ELSE except_clause(t, prepare_ticker_variants(t), html_content)
    ELSE except_clause(t, prepare_ticker_variants(t), response)

\* invocation i returns in this step
Returns(i) == call_pc[i] # "returned" /\ call_pc'[i] = "returned"

\* C23: with invocations of analyze_stock interleaved in any order at
\* session.get and response.text on one analyzer, each returns what it
\* would return alone on its own ticker, response and page at the same
\* clock reading, a returned result is never changed by another invocation,
\* and the analyzer's finnhub_client is never modified.
C23_Isolation ==
    [][/\ \A i \in Calls :
            /\ Returns(i) =>
                  call_result'[i] = Alone(call_ticker_input'[i], call_response'[i],
                                          call_content'[i], now)
            /\ call_pc[i] = "returned" /\ call_result'[i] # call_result[i] =>
                  call_pc'[i] # "returned"
       /\ finnhub_client' = finnhub_client]_vars

\* two invocations for different tickers have both returned an analysis,
\* one of them while the other was suspended, and no other was called
C23_Witness ==
    \E i, j \in Calls :
        /\ Analysed(i) /\ Analysed(j)
        /\ call_ticker_input[i] # call_ticker_input[j]
        /\ call_result[i].ticker # call_result[j].ticker
        /\ calls_overlapped
        /\ \A k \in Calls \ {i, j} : call_pc[k] = "idle"
        /\ finnhub_client # None


----------------------------------------------------------------------------
(* C27: the marker check, extraction and the fetch in analyze_stock.       *)

PipelineCalls ==
    {"extract_financial_data", "calculate_fair_price", "generate_investment_analysis"}

\* the positions of trace at which one of the named calls was made
Made(trace, names) == {k \in 1..Len(trace) : trace[k] \in names}

\* C27: in every analyze_stock invocation the marker check precedes each
\* call of extract_financial_data, calculate_fair_price and
\* generate_investment_analysis; on a page without the 'Papel' marker the
\* invocation returns the invalid-page error and none of the three is
\* called; when session.get or response.text fails neither the marker check
\* nor any of the three is made; and session.get is called at most once.
C27_MarkerBeforeExtraction ==
    \A i \in Calls :
        LET trace == call_trace[i]
        IN  /\ Cardinality(Made(trace, {"session.get"})) <= 1
            /\ \A k \in Made(trace, PipelineCalls) :
                  \E m \in Made(trace, {"soup.find"}) : m < k
            /\ call_pc[i] = "returned" /\ MarkerMissing(i) =>
                  /\ call_result[i] = failure(invalid_page_error, call_ticker_input[i],
                                              call_tickers[i])
                  /\ Made(trace, {"soup.find"}) # {}
                  /\ Made(trace, PipelineCalls) = {}
            /\ call_pc[i] = "returned" /\ FetchFailed(i) =>
                  Made(trace, {"soup.find"} \cup PipelineCalls) = {}

\* one invocation has returned on a page that has indicators and no marker,
\* another after response.text failed
C27_Witness ==
    \E i, j \in Calls :
        /\ call_pc[i] = "returned" /\ MarkerMissing(i)
        /\ call_content[i].doc # <<>>
        /\ "error" \in DOMAIN call_result[i]
        /\ call_pc[j] = "returned" /\ call_content[j].kind \in {"timeout", "error"}
        /\ call_trace[j] = <<"session.get", "response.text">>

====
